---- MODULE Spec2Model ----
(***************************************************************************)
(* CyberShield: the URL safety check (app/api/url-check/route.ts), the    *)
(* SMS scam check (app/api/sms-check/route.ts), the password check         *)
(* (app/api/password-check/route.ts), the rate limiter (lib/rate-limit.ts),*)
(* the session middleware and the content analysis (lib/gemini.ts,         *)
(* app/api/analyze/route.ts) as state machines.                            *)
(*                                                                         *)
(* Strings are sequences of one-character strings, so that startsWith,     *)
(* endsWith, includes, split, the regular expressions and the URL parser   *)
(* are computed on the characters and not assumed.                         *)
(***************************************************************************)
EXTENDS Integers, Sequences, FiniteSets, TLC

VARIABLES
    env_GEMINI_API_KEY, \* process.env.GEMINI_API_KEY is set (truthy)
    urlPc,              \* position of the url-check POST handler
    urlReq,             \* the request body being handled
    urlAnalysis,        \* analyzeURL's result object (with its local riskScore)
    urlResp,            \* the NextResponse returned
    smsPc,              \* position of the sms-check POST handler
    smsReq,             \* the request body being handled
    smsLocal,           \* the handler's locals before the AI call
    smsAiResult,        \* aiResult: what getAIAnalysis returned, once it has
    smsResp,            \* the NextResponse returned
    lastIndex,          \* lastIndex of the module's URL_PATTERN and PHONE_PATTERN
    pwdPc,              \* position of the password-check POST handler
    pwdReq,             \* the request body being handled
    pwdAnalysis,        \* analyzePassword's result (with its running scores)
    pwdBreach,          \* checkBreaches' locals and its outbound request
    pwdResp,            \* the NextResponse returned
    rlNow,              \* Date.now(), in milliseconds
    rlStore,            \* rateLimitStore: the entry of each identifier, if any
    rlLastCleanup,      \* lastCleanup
    rlConfig,           \* the config the caller passes, once it has called
    rlTicks,            \* how many times the clock has advanced
    rlWindow,           \* per identifier: the window in force and its admissions
    rlLast,             \* the last checkRateLimit call: its inputs and result
    mwEnv,              \* NEXT_PUBLIC_SUPABASE_URL and _ANON_KEY, once read
    mwLast,             \* the last request through updateSession and its response
    anPc,               \* position of the analyze POST handler
    anReq,              \* the request being handled
    anLimit,            \* rateLimitResult
    anAI,               \* how the Gemini call settled, once it has
    anResult,           \* analysisResult
    anResp,             \* the NextResponse returned
    probe               \* an earlier evaluation kept for comparison: request and response

urlVars == <<urlPc, urlReq, urlAnalysis, urlResp>>
smsVars == <<smsPc, smsReq, smsLocal, smsAiResult, smsResp, lastIndex>>
pwdVars == <<pwdPc, pwdReq, pwdAnalysis, pwdBreach, pwdResp>>
rlVars == <<rlNow, rlStore, rlLastCleanup, rlConfig, rlTicks, rlWindow, rlLast>>
mwVars == <<mwEnv, mwLast>>
anVars == <<anPc, anReq, anLimit, anAI, anResult, anResp>>
restVars == <<rlVars, mwVars, anVars, probe>>
vars == <<env_GEMINI_API_KEY, urlVars, smsVars, pwdVars, restVars>>

----------------------------------------------------------------------------
(* Characters and strings *)

LowerAlpha == {"a","b","c","d","e","f","g","h","i","j","k","l","m",
               "n","o","p","q","r","s","t","u","v","w","x","y","z"}
UpperAlpha == {"A","B","C","D","E","F","G","H","I","J","K","L","M",
               "N","O","P","Q","R","S","T","U","V","W","X","Y","Z"}
Digit == {"0","1","2","3","4","5","6","7","8","9"}
Alpha == LowerAlpha \cup UpperAlpha
Whitespace == {" ", "\n", "\r", "\t"}

LowerOf ==
    [c \in UpperAlpha |->
        CASE c = "A" -> "a" [] c = "B" -> "b" [] c = "C" -> "c" [] c = "D" -> "d"
          [] c = "E" -> "e" [] c = "F" -> "f" [] c = "G" -> "g" [] c = "H" -> "h"
          [] c = "I" -> "i" [] c = "J" -> "j" [] c = "K" -> "k" [] c = "L" -> "l"
          [] c = "M" -> "m" [] c = "N" -> "n" [] c = "O" -> "o" [] c = "P" -> "p"
          [] c = "Q" -> "q" [] c = "R" -> "r" [] c = "S" -> "s" [] c = "T" -> "t"
          [] c = "U" -> "u" [] c = "V" -> "v" [] c = "W" -> "w" [] c = "X" -> "x"
          [] c = "Y" -> "y" [] c = "Z" -> "z"]

DigitVal ==
    [c \in Digit |->
        CASE c = "0" -> 0 [] c = "1" -> 1 [] c = "2" -> 2 [] c = "3" -> 3
          [] c = "4" -> 4 [] c = "5" -> 5 [] c = "6" -> 6 [] c = "7" -> 7
          [] c = "8" -> 8 [] c = "9" -> 9]

\* String.prototype.toLowerCase on the ASCII characters used here
ToLowerCase(s) == [i \in 1..Len(s) |-> IF s[i] \in UpperAlpha THEN LowerOf[s[i]] ELSE s[i]]

\* String.prototype.startsWith / endsWith / includes
StartsWith(s, p) == Len(s) >= Len(p) /\ SubSeq(s, 1, Len(p)) = p
EndsWith(s, p) == Len(s) >= Len(p) /\ SubSeq(s, Len(s) - Len(p) + 1, Len(s)) = p
Includes(s, p) == \E i \in 1..(Len(s) - Len(p) + 1) : SubSeq(s, i, i + Len(p) - 1) = p

\* index of the first occurrence of character c in s at or after i, 0 if none
RECURSIVE IndexOfFrom(_, _, _)
IndexOfFrom(s, c, i) ==
    IF i > Len(s) THEN 0
    ELSE IF s[i] = c THEN i
    ELSE IndexOfFrom(s, c, i + 1)

\* String.prototype.split on a one-character separator
RECURSIVE Split(_, _)
Split(s, c) ==
    LET k == IndexOfFrom(s, c, 1)
    IN  IF k = 0 THEN <<s>>
        ELSE <<SubSeq(s, 1, k - 1)>> \o Split(SubSeq(s, k + 1, Len(s)), c)

\* value of a string of decimal digits
RECURSIVE DecimalValue(_)
DecimalValue(s) ==
    IF s = <<>> THEN 0
    ELSE 10 * DecimalValue(SubSeq(s, 1, Len(s) - 1)) + DigitVal[s[Len(s)]]

AllDigits(s) == \A i \in 1..Len(s) : s[i] \in Digit


RECURSIVE JoinWith(_, _)
JoinWith(ss, sep) ==
    IF ss = <<>> THEN <<>>
    ELSE IF Len(ss) = 1 THEN Head(ss)
    ELSE Head(ss) \o sep \o JoinWith(Tail(ss), sep)

RECURSIVE Sum(_)
Sum(ns) == IF ns = <<>> THEN 0 ELSE Head(ns) + Sum(Tail(ns))

Min(a, b) == IF a < b THEN a ELSE b
Max(a, b) == IF a > b THEN a ELSE b

----------------------------------------------------------------------------
(* Regular expressions, matched by backtracking as the engine does.  A    *)
(* regular expression is a sequence of alternatives, tried in order; an    *)
(* alternative is a sequence of items; an item is a character class (the   *)
(* characters in cls, or those not in cls when neg) with a quantifier:     *)
(* "one", "opt" (zero or one, greedy) or "star" (any number, greedy).  A   *)
(* group of the source                                                     *)
(* that holds an alternation or is optional is written out as several      *)
(* alternatives.                                                           *)

One(cls) == [q |-> "one", neg |-> FALSE, cls |-> cls]
Opt(cls) == [q |-> "opt", neg |-> FALSE, cls |-> cls]
Star(cls) == [q |-> "star", neg |-> FALSE, cls |-> cls]
Not(item) == [item EXCEPT !.neg = TRUE]
DotStar == Not(Star({"\n"}))
NonSpace == Not(One(Whitespace))
NonSpaceStar == Not(Star(Whitespace))
Lit(s) == [i \in 1..Len(s) |-> One({s[i]})]

InClass(c, item) == (c \in item.cls) # item.neg

\* end (exclusive) of the longest run of characters of the item's class from i
RECURSIVE RunEnd(_, _, _)
RunEnd(s, i, item) ==
    IF i <= Len(s) /\ InClass(s[i], item) THEN RunEnd(s, i + 1, item) ELSE i

\* The alternative alt from item k on, matched at position i of s: the end
\* (exclusive) of the first match in backtracking order, 0 if there is none.
RECURSIVE MatchEnd(_, _, _, _)
RECURSIVE StarBacktrack(_, _, _, _, _)
MatchEnd(s, i, alt, k) ==
    IF k > Len(alt) THEN i
    ELSE LET item == alt[k]
             here == i <= Len(s) /\ InClass(s[i], item)
         IN  CASE item.q = "one" ->
                    IF here THEN MatchEnd(s, i + 1, alt, k + 1) ELSE 0
               [] item.q = "opt" ->
                    LET taken == IF here THEN MatchEnd(s, i + 1, alt, k + 1) ELSE 0
                    IN  IF taken # 0 THEN taken ELSE MatchEnd(s, i, alt, k + 1)
               [] OTHER -> StarBacktrack(s, RunEnd(s, i, item), i, alt, k + 1)
\* the rest of alt after a star that may end anywhere from j down to lo
StarBacktrack(s, j, lo, alt, k) ==
    LET r == MatchEnd(s, j, alt, k)
    IN  IF r # 0 THEN r
        ELSE IF j > lo THEN StarBacktrack(s, j - 1, lo, alt, k)
        ELSE 0

\* the end (exclusive) of the match of re at position i, 0 if none
RECURSIVE ExecAlt(_, _, _, _)
ExecAlt(re, s, i, a) ==
    IF a > Len(re) THEN 0
    ELSE LET r == MatchEnd(s, i, re[a], 1)
         IN  IF r # 0 THEN r ELSE ExecAlt(re, s, i, a + 1)

\* RegExp.prototype.test for an expression without the g flag
Test(re, s) == \E i \in 1..(Len(s) + 1) : ExecAlt(re, s, i, 1) # 0

\* String.prototype.match with a /g expression: the successive matches, each
\* search resuming where the last match ended (no expression here matches the
\* empty string); fold = TRUE for the i flag
RECURSIVE MatchAllFrom(_, _, _, _)
MatchAllFrom(re, s, subject, i) ==
    IF i > Len(s) THEN <<>>
    ELSE LET e == ExecAlt(re, subject, i, 1)
         IN  IF e # 0 THEN <<SubSeq(s, i, e - 1)>> \o MatchAllFrom(re, s, subject, e)
             ELSE MatchAllFrom(re, s, subject, i + 1)
MatchAll(re, s, fold) == MatchAllFrom(re, s, IF fold THEN ToLowerCase(s) ELSE s, 1)

\* one RegExp.prototype.exec of a /g expression in place of the match: the
\* search starts at the expression's lastIndex (from) and leaves lastIndex
\* behind the match found, or at 0 when there is none
StringMatch_exec(re, s, fold, from) ==
    LET subject == IF fold THEN ToLowerCase(s) ELSE s
        starts == {i \in (from + 1)..Len(s) : ExecAlt(re, subject, i, 1) # 0}
        first == CHOOSE i \in starts : \A j \in starts : i <= j
    IN  IF starts = {} THEN [matches |-> <<>>, lastIndex |-> 0]
        ELSE [matches |-> <<SubSeq(s, first, ExecAlt(re, subject, first, 1) - 1)>>,
              lastIndex |-> ExecAlt(re, subject, first, 1) - 1]

\* s.match(re) for a module-level /g expression whose lastIndex is from:
\* RegExp.prototype[Symbol.match] sets lastIndex to 0 before it searches,
\* and the search that finds no further match leaves it at 0
StringMatch(re, s, fold, from) ==
    [matches |-> MatchAll(re, s, fold), lastIndex |-> 0]

----------------------------------------------------------------------------
(* new URL(s) without a base, for strings over letters, digits and         *)
(* ". - : / + $ ,": no userinfo, query, fragment, backslash, bracket, per  *)
(* cent or dot segment occurs in the inputs below.                         *)


\* position of the ":" that ends the scheme, 0 if s has no scheme
SchemeColon(s) ==
    LET c == IndexOfFrom(s, ":", 1)
    IN  IF /\ c > 1
           /\ s[1] \in Alpha
           /\ \A j \in 2..(c - 1) : s[j] \in (Alpha \cup Digit \cup {"+", "-", "."})
        THEN c ELSE 0

RECURSIVE StripSlashes(_)
StripSlashes(s) == IF s # <<>> /\ Head(s) = "/" THEN StripSlashes(Tail(s)) ELSE s

\* shortest decimal representation of a natural number
RECURSIVE NumToStr(_)
NumToStr(n) == IF n < 10 THEN <<<<"0","1","2","3","4","5","6","7","8","9">>[n + 1]>>
               ELSE NumToStr(n \div 10) \o <<<<"0","1","2","3","4","5","6","7","8","9">>[(n % 10) + 1]>>

RECURSIVE Pow(_, _)
Pow(b, e) == IF e = 0 THEN 1 ELSE b * Pow(b, e - 1)

\* the host parser's "ends in a number" check and the IPv4 parser, for
\* decimal parts of at most 9 digits without a leading zero (no octal or
\* hexadecimal part)
EndsInNumber(host) ==
    LET parts == Split(host, ".")
    IN  parts[Len(parts)] # <<>> /\ AllDigits(parts[Len(parts)])
IPv4Valid(host) ==
    LET parts == Split(host, ".")
        n == Len(parts)
    IN  /\ n <= 4
        /\ \A i \in 1..n : parts[i] # <<>> /\ AllDigits(parts[i]) /\ Len(parts[i]) <= 9
        /\ \A i \in 1..(n - 1) : DecimalValue(parts[i]) <= 255
        /\ DecimalValue(parts[n]) \div Pow(256, 4 - n) <= 255
\* the four octets: the last part fills the octets the others leave
IPv4Octets(host) ==
    LET parts == Split(host, ".")
        n == Len(parts)
        last == DecimalValue(parts[n])
    IN  [i \in 1..4 |-> IF i < n THEN DecimalValue(parts[i])
                        ELSE (last \div Pow(256, 4 - i)) % 256]
IPv4Serialize(o) ==
    NumToStr(o[1]) \o <<".">> \o NumToStr(o[2]) \o <<".">> \o NumToStr(o[3])
    \o <<".">> \o NumToStr(o[4])

\* authority "host" or "host:port" of a URL of scheme sch; path is the rest
ParseAuthority(sch, special, authority, path) ==
    LET c == IndexOfFrom(authority, ":", 1)
        rawHost == IF c = 0 THEN authority ELSE SubSeq(authority, 1, c - 1)
        portStr == IF c = 0 THEN <<>> ELSE SubSeq(authority, c + 1, Len(authority))
        lower == IF special THEN ToLowerCase(rawHost) ELSE rawHost
        isIPv4 == special /\ lower # <<>> /\ EndsInNumber(lower)
        host == IF isIPv4 /\ IPv4Valid(lower) THEN IPv4Serialize(IPv4Octets(lower)) ELSE lower
        portOk == AllDigits(portStr) /\ Len(portStr) <= 5 /\ DecimalValue(portStr) <= 65535
        isDefault == /\ special
                     /\ portStr # <<>>
                     /\ DecimalValue(portStr) = (IF sch = <<"h","t","t","p">> THEN 80
                                                 ELSE 443)
        port == IF portStr = <<>> \/ isDefault THEN <<>>
                ELSE <<":">> \o NumToStr(DecimalValue(portStr))
        pathname == IF special /\ path = <<>> THEN <<"/">> ELSE path
    IN  IF ~portOk THEN [ok |-> FALSE]
        ELSE IF special /\ lower = <<>> THEN [ok |-> FALSE]
        ELSE IF isIPv4 /\ ~IPv4Valid(lower) THEN [ok |-> FALSE]
        ELSE [ok |-> TRUE,
              protocol |-> sch \o <<":">>,
              hostname |-> host,
              pathname |-> pathname,
              href |-> sch \o <<":", "/", "/">> \o host \o port \o pathname]

URLParse(s) ==
    LET c == SchemeColon(s)
        sch == ToLowerCase(SubSeq(s, 1, c - 1))
        rest == SubSeq(s, c + 1, Len(s))
        special == sch \in {<<"h","t","t","p">>, <<"h","t","t","p","s">>}
        afterSlashes == IF special THEN StripSlashes(rest) ELSE SubSeq(rest, 3, Len(rest))
        slash == IndexOfFrom(afterSlashes, "/", 1)
        authority == IF slash = 0 THEN afterSlashes ELSE SubSeq(afterSlashes, 1, slash - 1)
        path == IF slash = 0 THEN <<>> ELSE SubSeq(afterSlashes, slash, Len(afterSlashes))
    IN  IF c = 0 THEN [ok |-> FALSE]
        ELSE IF special \/ StartsWith(rest, <<"/", "/">>)
             THEN ParseAuthority(sch, special, authority, path)
        ELSE [ok |-> TRUE,
              protocol |-> sch \o <<":">>,
              hostname |-> <<>>,
              pathname |-> rest,
              href |-> sch \o <<":">> \o rest]


----------------------------------------------------------------------------
(* app/api/url-check/route.ts *)

SUSPICIOUS_TLDS ==
    << <<".","x","y","z">>, <<".","t","o","p">>, <<".","c","l","i","c","k">>, <<".","l","i","n","k">>, <<".","w","o","r","k">>,
       <<".","o","n","l","i","n","e">>, <<".","s","i","t","e">>, <<".","t","k">>, <<".","m","l">>, <<".","g","a">> >>
URL_SHORTENERS ==
    << <<"b","i","t",".","l","y">>, <<"t","i","n","y","u","r","l",".","c","o","m">>, <<"t",".","c","o">>, <<"g","o","o",".","g","l">>,
       <<"o","w",".","l","y">>, <<"i","s",".","g","d">>, <<"b","u","f","f",".","l","y">> >>
\* each entry: the expression's source text and the expression
PHISHING_PATTERNS ==
    << [src |-> "/paypa[l1]/i",
        re |-> <<Lit(<<"p","a","y","p","a">>) \o <<One({"l","1"})>>>>],
       [src |-> "/amaz[o0]n/i",
        re |-> <<Lit(<<"a","m","a","z">>) \o <<One({"o","0"})>> \o Lit(<<"n">>)>>],
       [src |-> "/g[o0]{2}gle/i",
        re |-> <<Lit(<<"g">>) \o <<One({"o","0"})>> \o <<One({"o","0"})>> \o Lit(<<"g","l","e">>)>>],
       [src |-> "/faceb[o0]{2}k/i",
        re |-> <<Lit(<<"f","a","c","e","b">>) \o <<One({"o","0"})>> \o <<One({"o","0"})>> \o Lit(<<"k">>)>>],
       [src |-> "/micr[o0]s[o0]ft/i",
        re |-> <<Lit(<<"m","i","c","r">>) \o <<One({"o","0"})>> \o Lit(<<"s">>) \o <<One({"o","0"})>> \o Lit(<<"f","t">>)>>],
       [src |-> "/app[l1]e/i",
        re |-> <<Lit(<<"a","p","p">>) \o <<One({"l","1"})>> \o Lit(<<"e">>)>>],
       [src |-> "/netf[l1]ix/i",
        re |-> <<Lit(<<"n","e","t","f">>) \o <<One({"l","1"})>> \o Lit(<<"i","x">>)>>],
       [src |-> "/secure-.*login/i",
        re |-> <<Lit(<<"s","e","c","u","r","e","-">>) \o <<DotStar>> \o Lit(<<"l","o","g","i","n">>)>>],
       [src |-> "/verify-.*account/i",
        re |-> <<Lit(<<"v","e","r","i","f","y","-">>) \o <<DotStar>> \o Lit(<<"a","c","c","o","u","n","t">>)>>],
       [src |-> "/update-.*info/i",
        re |-> <<Lit(<<"u","p","d","a","t","e","-">>) \o <<DotStar>> \o Lit(<<"i","n","f","o">>)>>],
       [src |-> "/login-.*secure/i",
        re |-> <<Lit(<<"l","o","g","i","n","-">>) \o <<DotStar>> \o Lit(<<"s","e","c","u","r","e">>)>>] >>

SeqSome(hits) == \E i \in 1..Len(hits) : hits[i]


estimateDomainAge(domain) ==
    LET wellKnownDomains ==
            << <<"g","o","o","g","l","e",".","c","o","m">>, <<"f","a","c","e","b","o","o","k",".","c","o","m">>, <<"a","m","a","z","o","n",".","c","o","m">>,
              <<"m","i","c","r","o","s","o","f","t",".","c","o","m">>, <<"a","p","p","l","e",".","c","o","m">>, <<"g","i","t","h","u","b",".","c","o","m">> >>
    IN
    IF SeqSome([i \in 1..Len(wellKnownDomains) |-> EndsWith(domain, wellKnownDomains[i])])
    THEN "10+ years (established)"
    ELSE IF SeqSome([i \in 1..Len(SUSPICIOUS_TLDS) |-> EndsWith(domain, SUSPICIOUS_TLDS[i])])
    THEN "< 1 year (recent)"
    ELSE "Unknown"

\* /^\d{1,3}\.\d{1,3}\.\d{1,3}\.\d{1,3}$/.test(domain)
IsDottedQuad(domain) ==
    LET parts == Split(domain, ".")
    IN  /\ Len(parts) = 4
        /\ \A i \in 1..4 : Len(parts[i]) \in 1..3 /\ AllDigits(parts[i])


W_HTTP == 20
W_TLD == 25
W_SHORTENER == 15
W_PHISHING == 40
W_IP == 30
W_SUBDOMAINS == 15
W_KEYWORD == 20
W_SCHEME == 50
W_LENGTH == 10
MaxSubdomainParts == 3
MaxHrefLength == 200


\* line 92: the patterns that match the host name or the path
\* (the i flag: the expressions are in lower case and the subjects are folded)
matchedPatternsOf(parsedUrl, domain) ==
    LET foldedDomain == ToLowerCase(domain)
        foldedPath == ToLowerCase(parsedUrl.pathname)
    IN  SelectSeq(PHISHING_PATTERNS,
                  LAMBDA p : Test(p.re, foldedDomain) \/ Test(p.re, foldedPath))

\* lines 70-128: the nine checks in the order the code runs them, each with
\* its condition, the weight it adds to riskScore and the threat it pushes
urlChecks(parsedUrl, domain) ==
    LET isHTTPS == parsedUrl.protocol = <<"h","t","t","p","s",":">>
        hasSuspiciousTLD == SeqSome([i \in 1..Len(SUSPICIOUS_TLDS) |-> EndsWith(domain, SUSPICIOUS_TLDS[i])])
        isShortener == SeqSome([i \in 1..Len(URL_SHORTENERS) |-> Includes(domain, URL_SHORTENERS[i])])
        matchedPatterns == matchedPatternsOf(parsedUrl, domain)
        isIPAddress == IsDottedQuad(domain)
        subdomainParts == Split(domain, ".")
        keywordCombo == /\ Includes(domain, <<"-">>)
                        /\ \/ Includes(domain, <<"l","o","g","i","n">>)
                           \/ Includes(domain, <<"s","e","c","u","r","e">>)
                           \/ Includes(domain, <<"v","e","r","i","f","y">>)
        dangerousScheme == parsedUrl.protocol \in {<<"d","a","t","a",":">>, <<"j","a","v","a","s","c","r","i","p","t",":">>}
        tooLong == Len(parsedUrl.href) > MaxHrefLength
    IN  << [fired |-> ~isHTTPS, weight |-> W_HTTP, threat |-> "URL uses HTTP instead of secure HTTPS"],
           [fired |-> hasSuspiciousTLD, weight |-> W_TLD, threat |-> "Suspicious top-level domain (TLD)"],
           [fired |-> isShortener, weight |-> W_SHORTENER, threat |-> "URL shortener detected - final destination hidden"],
           [fired |-> Len(matchedPatterns) > 0, weight |-> W_PHISHING, threat |-> "Potential brand impersonation/typosquatting detected"],
           [fired |-> isIPAddress, weight |-> W_IP, threat |-> "URL uses IP address instead of domain name"],
           [fired |-> Len(subdomainParts) > MaxSubdomainParts, weight |-> W_SUBDOMAINS,
            threat |-> "Multiple subdomains detected (common in phishing)"],
           [fired |-> keywordCombo, weight |-> W_KEYWORD, threat |-> "Suspicious keyword combination in domain"],
           [fired |-> dangerousScheme, weight |-> W_SCHEME, threat |-> "Dangerous URL scheme detected"],
           [fired |-> tooLong, weight |-> W_LENGTH, threat |-> "Unusually long URL (may hide actual destination)"] >>

\* the largest weight instead of the sum of the weights
urlAccumulate_largest(checks) ==
    LET firedSteps == SelectSeq(checks, LAMBDA st : st.fired)
    IN  IF firedSteps = <<>> THEN 0
        ELSE CHOOSE w \in {firedSteps[i].weight : i \in 1..Len(firedSteps)} :
                \A i \in 1..Len(firedSteps) : firedSteps[i].weight <= w

\* lines 68-128: riskScore after the last check
urlAccumulate(checks) ==
    LET firedSteps == SelectSeq(checks, LAMBDA st : st.fired)
    IN  Sum([i \in 1..Len(firedSteps) |-> firedSteps[i].weight])

\* lines 67-128: the threats pushed
urlThreats(checks) ==
    LET firedSteps == SelectSeq(checks, LAMBDA st : st.fired)
    IN  [i \in 1..Len(firedSteps) |-> firedSteps[i].threat]

\* lines 130-136
urlRiskLevel(riskScore) ==
    IF riskScore >= 70 THEN "critical"
    ELSE IF riskScore >= 50 THEN "high"
    ELSE IF riskScore >= 30 THEN "medium"
    ELSE IF riskScore >= 15 THEN "low"
    ELSE "safe"

\* the cutoff off by one
urlSafe_inclusive(riskScore) == riskScore <= 30

\* line 149
urlSafe(riskScore) == riskScore < 30

\* the clamp forgotten
urlReturnedScore_unclamped(riskScore) == riskScore

\* line 151
urlReturnedScore(riskScore) == Min(100, riskScore)

\* analyzeURL(parsedUrl, domain); riskScoreLocal is the local riskScore, which
\* the returned object carries only clamped
analyzeURL(parsedUrl, domain) ==
    LET checks == urlChecks(parsedUrl, domain)
        isHTTPS == ~checks[1].fired
        isShortener == checks[3].fired
        matchedPatterns == matchedPatternsOf(parsedUrl, domain)
        riskScore == urlAccumulate(checks)
        threats == urlThreats(checks)
        recommendations ==
            (IF ~isHTTPS
             THEN <<"Always prefer HTTPS websites for secure data transmission">> ELSE <<>>)
            \o (IF isShortener
                THEN <<"Use a URL expander to see the actual destination before clicking">>
                ELSE <<>>)
            \o (IF riskScore >= 30
                THEN <<"Do not enter personal information on this website">> ELSE <<>>)
            \o (IF riskScore >= 50
                THEN <<"Do not visit this URL - it may be dangerous">> ELSE <<>>)
            \o (IF Len(matchedPatterns) > 0
                THEN <<"Navigate directly to the official website instead of clicking this link">>
                ELSE <<>>)
            \o (IF Len(threats) = 0
                THEN <<"Still exercise caution - no analysis is 100% accurate">> ELSE <<>>)
    IN  [url |-> parsedUrl.href,
         safe |-> urlSafe(riskScore),
         riskLevel |-> urlRiskLevel(riskScore),
         riskScore |-> urlReturnedScore(riskScore),
         riskScoreLocal |-> riskScore,
         threats |-> threats,
         details |-> [domain |-> domain,
                      registrationAge |-> estimateDomainAge(domain),
                      ssl |-> isHTTPS,
                      redirects |-> isShortener,
                      suspiciousPatterns |->
                          [i \in 1..Len(matchedPatterns) |-> matchedPatterns[i].src]],
         recommendations |-> recommendations]

----------------------------------------------------------------------------
(* JavaScript values as they come out of JSON.parse and of the request     *)
(* body.  t is the type; num the value of a number or boolean (0 or 1);    *)
(* items the characters of a string or the elements of an array; props the *)
(* properties of an object (undefined where the object has none).          *)

AIKeys == {"additionalThreats", "recommendations", "isScam", "scamType", "summary", "advice"}
Simple(t, num, items) == [t |-> t, num |-> num, items |-> items]
PropUndefined == Simple("undefined", 0, <<>>)
NoProps == [k \in AIKeys |-> PropUndefined]
JSValue(t, num, items, props) == [t |-> t, num |-> num, items |-> items, props |-> props]
JSUndefined == JSValue("undefined", 0, <<>>, NoProps)
JSNull == JSValue("null", 0, <<>>, NoProps)
JSNumber(n) == JSValue("number", n, <<>>, NoProps)
JSBoolean(b) == JSValue("boolean", IF b THEN 1 ELSE 0, <<>>, NoProps)
JSString(s) == JSValue("string", 0, s, NoProps)
JSArray(a) == JSValue("array", 0, a, NoProps)
\* an object with the properties ps (a function from some of AIKeys to values)
JSObject(ps) ==
    JSValue("object", 0, <<>>,
            [k \in AIKeys |-> IF k \in DOMAIN ps
                              THEN Simple(ps[k].t, ps[k].num, ps[k].items)
                              ELSE PropUndefined])

\* ToBoolean
Truthy(x) ==
    CASE x.t \in {"undefined", "null"} -> FALSE
      [] x.t \in {"number", "boolean"} -> x.num # 0
      [] x.t = "string" -> x.items # <<>>
      [] OTHER -> TRUE

\* x.name for a property an object may carry; other values have no such property
GetProp(x, name) == IF x.t = "object" THEN x.props[name] ELSE PropUndefined

\* [...x]: only iterables can be spread into an array literal (TypeError otherwise)
Iterable(x) == x.t \in {"array", "string"}
SpreadOf(x) == x.items

----------------------------------------------------------------------------
(* The text of a Gemini candidate: a sequence of tokens, each a markdown    *)
(* fence, the word json, white space, or a payload (a JSON text with the   *)
(* value it denotes, or text that is no JSON).                             *)

Tok(kind) == [k |-> kind, value |-> JSNull]
TokPayload(val) == [k |-> "payload", value |-> val]

\* String.prototype.trim
RECURSIVE TrimStart(_)
TrimStart(toks) ==
    IF toks # <<>> /\ Head(toks) = Tok("space") THEN TrimStart(Tail(toks)) ELSE toks
RECURSIVE TrimEnd(_)
TrimEnd(toks) ==
    IF toks # <<>> /\ toks[Len(toks)] = Tok("space")
    THEN TrimEnd(SubSeq(toks, 1, Len(toks) - 1)) ELSE toks
Trim(toks) == TrimEnd(TrimStart(toks))

\* the fence stripping shared by both getAIAnalysis functions
CleanText(text) ==
    LET t0 == Trim(text)
        t1 == IF StartsWith(t0, <<Tok("fence"), Tok("json")>>) THEN SubSeq(t0, 3, Len(t0)) ELSE t0
        t2 == IF StartsWith(t1, <<Tok("fence")>>) THEN SubSeq(t1, 2, Len(t1)) ELSE t1
        t3 == IF EndsWith(t2, <<Tok("fence")>>) THEN SubSeq(t2, 1, Len(t2) - 1) ELSE t2
    IN  Trim(t3)

\* JSON.parse: the text is one JSON value, or a SyntaxError is thrown
JSONParses(toks) == Len(toks) = 1 /\ toks[1].k = "payload"
JSONParse(toks) == toks[1].value

\* What the generativelanguage endpoint does for one call:
\*   fetch |-> "reject"            the fetch promise rejects (network error)
\*   ok                            response.ok
\*   body "invalid"                response.json() rejects
\*   body "null"                   the body is the JSON null
\*   body "object", hasText, text  an object, with or without a candidate text
AIReject == [fetch |-> "reject", ok |-> FALSE, body |-> "invalid", hasText |-> FALSE,
             text |-> <<>>]
AIStatus(ok) == [fetch |-> "response", ok |-> ok, body |-> "object", hasText |-> FALSE,
                 text |-> <<>>]
AIBody(kind) == [fetch |-> "response", ok |-> TRUE, body |-> kind, hasText |-> FALSE,
                 text |-> <<>>]
AIText(toks) == [fetch |-> "response", ok |-> TRUE, body |-> "object", hasText |-> TRUE,
                 text |-> toks]

\* getAIAnalysis of either route: null on every failure the try block catches,
\* else whatever JSON.parse returns
getAIAnalysis(outcome) ==
    IF outcome.fetch = "reject" THEN JSNull
    ELSE IF ~outcome.ok THEN JSNull
    ELSE IF outcome.body # "object" THEN JSNull
    ELSE IF ~outcome.hasText \/ outcome.text = <<>> THEN JSNull
    ELSE IF ~JSONParses(CleanText(outcome.text)) THEN JSNull
    ELSE JSONParse(CleanText(outcome.text))


----------------------------------------------------------------------------
(* Inputs of the url check *)

MaxLabels == 3


\* the strings submitted: a prefix, a host of up to MaxLabels labels (or one of
\* a few whole hosts) and a path
UrlStrings ==
    LET UrlPrefixes ==
            { <<>>, <<"h","t","t","p",":","/","/">>, <<"h","t","t","p","s",":","/","/">>, <<"j","a","v","a","s","c","r","i","p","t",":">>,
              <<"d","a","t","a",":">>, <<"f","t","p",":","/","/">>, <<"h","t","t","p","x",":","/","/">> }
        UrlLabels ==
            { <<"p","a","y","p","a","l">>, <<"s","e","c","u","r","e","-","l","o","g","i","n">>, <<"b","i","t">>, <<"l","y">>, <<"x","y","z">> }
        ExtraHosts ==
            { <<"1","9","2",".","1","6","8",".","1",".","1">>, <<"h","t","t","p","b","i","n",".","o","r","g">>, <<"m","i","c","r","o","s","o","f","t",".","c","o","m">>,
              <<"w","w","w",".","e","x","a","m","p","l","e",".","c","o","m">>, <<"a",".","b",".","c",".","e","x","a","m","p","l","e",".","c","o","m">> }
        LabelSeqs == UNION {[1..n -> UrlLabels] : n \in 0..MaxLabels}
        UrlHosts == {JoinWith(ls, <<".">>) : ls \in LabelSeqs} \cup ExtraHosts
        LongPath == <<"/">> \o [i \in 1..MaxHrefLength |-> "a"]
        UrlPaths == { <<>>, <<"/","P","a","y","P","a","l","/","l","o","g","i","n">>, LongPath }
    IN  {p \o h \o q : p \in UrlPrefixes, h \in UrlHosts, q \in UrlPaths}

\* the body of the request: json = FALSE when request.json() rejects
UrlRequests ==
    {[json |-> FALSE, url |-> JSUndefined]}
    \cup {[json |-> TRUE, url |-> u] : u \in {JSUndefined, JSNumber(7), JSString(<<>>)}}
    \cup {[json |-> TRUE, url |-> JSString(s)] : s \in UrlStrings}


UrlAIOutcomes ==
    LET AIArrays == {JSArray(<<>>), JSArray(<<"ai finding">>)}
        AIFieldValues == AIArrays \cup {JSUndefined, JSNull, JSString(<<"n", "o">>)}
        UrlAIValues ==
            {JSNull, JSNumber(0), JSNumber(1), JSArray(<<>>)}
            \cup {JSObject([additionalThreats |-> a, recommendations |-> r]) :
                    a \in AIFieldValues, r \in AIFieldValues}
        UrlAITexts ==
            {<<TokPayload(val)>> : val \in UrlAIValues}
            \cup {<<Tok("fence"), Tok("json"), Tok("space"), TokPayload(val), Tok("space"), Tok("fence")>> :
                    val \in {JSObject([additionalThreats |-> a, recommendations |-> a]) :
                               a \in AIArrays}}
            \cup {<<Tok("fence"), TokPayload(JSObject([additionalThreats |-> JSArray(<<>>),
                                                        recommendations |-> JSArray(<<>>)]))>>,
                  <<Tok("garbage")>>,
                  <<TokPayload(JSNull), Tok("garbage")>>}
    IN  {AIReject, AIStatus(FALSE), AIBody("invalid"), AIBody("null"), AIBody("object")}
        \cup {AIText(toks) : toks \in UrlAITexts}

----------------------------------------------------------------------------
(* POST /api/url-check *)

None == [none |-> TRUE]
JsonResponse(status, body) == [status |-> status, body |-> body]
ErrorBody(msg) == [error |-> msg]

\* lines 30-44: the URL given to the parser, and the analysis of what it parses to
urlWithProtocol(url) ==
    IF StartsWith(url, <<"h","t","t","p">>) THEN url
    ELSE <<"h","t","t","p","s",":","/","/">> \o url

\* lines 19-56 up to the await of getAIAnalysis
UrlPost ==
    /\ urlPc = "idle"
    /\ \E req \in UrlRequests :
        /\ urlReq' = req
        /\ IF ~req.json
           THEN /\ urlResp' = JsonResponse(500, ErrorBody("Failed to analyze URL"))
                /\ urlAnalysis' = None
                /\ urlPc' = "done"
           ELSE IF ~Truthy(req.url) \/ req.url.t # "string"
           THEN /\ urlResp' = JsonResponse(400, ErrorBody("URL is required"))
                /\ urlAnalysis' = None
                /\ urlPc' = "done"
           ELSE \E parsedUrl \in {URLParse(urlWithProtocol(req.url.items))} :
                    IF ~parsedUrl.ok
                    THEN /\ urlResp' = JsonResponse(400, ErrorBody("Invalid URL format"))
                         /\ urlAnalysis' = None
                         /\ urlPc' = "done"
                    ELSE \E analysis \in
                             {analyzeURL(parsedUrl, ToLowerCase(parsedUrl.hostname))} :
                             /\ urlAnalysis' = analysis
                             /\ IF env_GEMINI_API_KEY /\ analysis.riskScore > 20
                                THEN urlPc' = "ai" /\ urlResp' = None
                                ELSE /\ urlPc' = "done"
                                     /\ urlResp' = JsonResponse(200, analysis)
    /\ UNCHANGED <<env_GEMINI_API_KEY, smsVars, pwdVars, restVars>>

\* lines 49-56: getAIAnalysis settles and the handler merges its result; a
\* TypeError of the spreads is caught by the handler's catch (lines 57-63)
UrlMerge(analysis, aiAnalysis) ==
    IF ~Truthy(aiAnalysis) THEN JsonResponse(200, analysis)
    ELSE IF ~Iterable(GetProp(aiAnalysis, "additionalThreats"))
    THEN JsonResponse(500, ErrorBody("Failed to analyze URL"))
    ELSE IF ~Iterable(GetProp(aiAnalysis, "recommendations"))
    THEN JsonResponse(500, ErrorBody("Failed to analyze URL"))
    ELSE JsonResponse(200,
            [analysis EXCEPT
                !.threats = @ \o SpreadOf(GetProp(aiAnalysis, "additionalThreats")),
                !.recommendations = @ \o SpreadOf(GetProp(aiAnalysis, "recommendations"))])

UrlAIReturn ==
    /\ urlPc = "ai"
    /\ \E outcome \in UrlAIOutcomes :
        urlResp' = UrlMerge(urlAnalysis, getAIAnalysis(outcome))
    /\ urlPc' = "done"
    /\ UNCHANGED <<env_GEMINI_API_KEY, urlReq, urlAnalysis, smsVars, pwdVars, restVars>>

\* the response is sent; the route handles the next request
UrlNext ==
    /\ urlPc = "done"
    /\ urlPc' = "idle"
    /\ urlReq' = None
    /\ urlAnalysis' = None
    /\ urlResp' = None
    /\ UNCHANGED <<env_GEMINI_API_KEY, smsVars, pwdVars, restVars>>

Init ==
    /\ env_GEMINI_API_KEY \in BOOLEAN
    /\ urlPc = "idle"
    /\ urlReq = None
    /\ urlAnalysis = None
    /\ urlResp = None
    /\ smsPc = "idle"
    /\ smsReq = None
    /\ smsLocal = None
    /\ smsAiResult = None
    /\ smsResp = None
    /\ pwdPc = "idle"
    /\ pwdReq = None
    /\ pwdAnalysis = None
    /\ pwdBreach = None
    /\ pwdResp = None
    /\ rlNow = 0
    /\ rlStore = [k \in {} |-> None]
    /\ rlLastCleanup = 0
    /\ rlConfig = None
    /\ rlTicks = 0
    /\ rlWindow = [k \in {} |-> None]
    /\ rlLast = None
    /\ mwEnv = None
    /\ mwLast = None
    /\ anPc = "idle"
    /\ anReq = None
    /\ anLimit = None
    /\ anAI = None
    /\ anResult = None
    /\ anResp = None
    /\ lastIndex = [URL_PATTERN |-> 0, PHONE_PATTERN |-> 0]
    /\ probe = None

NextUrl == UrlPost \/ UrlAIReturn \/ UrlNext
SpecUrl == Init /\ [][NextUrl]_vars


----------------------------------------------------------------------------
(* Properties of the url check *)

\* the handler has returned an assessment
UrlAssessed == urlPc = "done" /\ urlResp.status = 200
\* analyzeURL has run for the request in hand
UrlAnalysed == urlPc \in {"ai", "done"} /\ urlAnalysis # None
\* the request carries a non-empty string
UrlStringInput == urlReq.json /\ urlReq.url.t = "string" /\ urlReq.url.items # <<>>

TierOfUrlScore(s) ==
    IF s >= 70 THEN "critical" ELSE IF s >= 50 THEN "high"
    ELSE IF s >= 30 THEN "medium" ELSE IF s >= 15 THEN "low" ELSE "safe"

\* C1: every assessment the url check returns has 0 <= riskScore <= 100, and
\* its riskLevel is the step function of that score with the inclusive
\* minimums 70 critical, 50 high, 30 medium, 15 low, else safe (so a higher
\* score never has a lower level).
Thm_C1_UrlScoreRangeAndTier ==
    UrlAssessed =>
        /\ urlResp.body.riskScore \in 0..100
        /\ urlResp.body.riskLevel = TierOfUrlScore(urlResp.body.riskScore)

\* an assessment whose accumulated score exceeded 100 before the clamp
Wit_C1_ClampedAssessment ==
    /\ UrlAssessed
    /\ urlResp.body.riskScoreLocal > 100
    /\ urlResp.body.riskScore = 100
    /\ urlResp.body.riskLevel = "critical"

\* C2: in every assessment safe is true exactly when the accumulated score is
\* below 30; levels safe and low always come with safe = true, levels medium,
\* high and critical with safe = false.
Thm_C2_SafeFlag ==
    UrlAssessed =>
        /\ urlResp.body.safe <=> (urlResp.body.riskScoreLocal < 30)
        /\ urlResp.body.riskLevel \in {"safe", "low"} => urlResp.body.safe
        /\ urlResp.body.riskLevel \in {"medium", "high", "critical"} => ~urlResp.body.safe

\* an assessment with score exactly 30: medium and not safe
Wit_C2_ScoreThirty ==
    /\ UrlAssessed
    /\ urlResp.body.riskScoreLocal = 30
    /\ urlResp.body.riskLevel = "medium"
    /\ ~urlResp.body.safe

\* the nine checks as the claim lists them, read off the returned object:
\* whether each fires for this result, its weight and its threat string
ClaimedChecks(r) ==
    LET domain == r.details.domain
    IN  << <<~StartsWith(r.url, <<"h","t","t","p","s",":">>), 20, "URL uses HTTP instead of secure HTTPS">>,
           <<SeqSome([i \in 1..Len(SUSPICIOUS_TLDS) |-> EndsWith(domain, SUSPICIOUS_TLDS[i])]), 25, "Suspicious top-level domain (TLD)">>,
           <<r.details.redirects, 15, "URL shortener detected - final destination hidden">>,
           <<r.details.suspiciousPatterns # <<>>, 40, "Potential brand impersonation/typosquatting detected">>,
           <<IsDottedQuad(domain), 30, "URL uses IP address instead of domain name">>,
           <<Len(Split(domain, ".")) > 3, 15, "Multiple subdomains detected (common in phishing)">>,
           <<Includes(domain, <<"-">>)
               /\ (Includes(domain, <<"l","o","g","i","n">>) \/ Includes(domain, <<"s","e","c","u","r","e">>)
                   \/ Includes(domain, <<"v","e","r","i","f","y">>)), 20, "Suspicious keyword combination in domain">>,
           <<StartsWith(r.url, <<"d","a","t","a",":">>) \/ StartsWith(r.url, <<"j","a","v","a","s","c","r","i","p","t",":">>),
             50, "Dangerous URL scheme detected">>,
           <<Len(r.url) > 200, 10, "Unusually long URL (may hide actual destination)">> >>

\* C3: the score before clamping is the sum of the fixed weights of exactly
\* the checks that fire, each fired check contributes one threat string, in
\* the order of the checks, and only the final sum is clamped to 100.
Thm_C3_AdditiveWeights ==
    UrlAnalysed =>
        LET cs == SelectSeq(ClaimedChecks(urlAnalysis), LAMBDA c : c[1])
        IN  /\ urlAnalysis.riskScoreLocal = Sum([i \in 1..Len(cs) |-> cs[i][2]])
            /\ urlAnalysis.threats = [i \in 1..Len(cs) |-> cs[i][3]]
            /\ urlAnalysis.riskScore = Min(100, urlAnalysis.riskScoreLocal)

\* five checks fire together and their sum passes 100
Wit_C3_FiveChecks ==
    /\ UrlAnalysed
    /\ Len(urlAnalysis.threats) >= 5
    /\ urlAnalysis.riskScoreLocal > 100

\* C4 (as claimed): a submitted URL whose scheme is data: or javascript: is
\* assessed with the dangerous-scheme finding and at least its 50 points.
Cex_C4_DangerousSchemeReported ==
    (/\ urlPc = "done"
     /\ UrlStringInput
     /\ \/ StartsWith(urlReq.url.items, <<"j","a","v","a","s","c","r","i","p","t",":">>)
        \/ StartsWith(urlReq.url.items, <<"d","a","t","a",":">>))
    => /\ urlResp.status = 200
       /\ \E i \in 1..Len(urlResp.body.threats) : urlResp.body.threats[i] = "Dangerous URL scheme detected"
       /\ urlResp.body.riskScoreLocal >= 50

\* C5 (as claimed): an input without a protocol whose https:// form parses is
\* never answered 400 'Invalid URL format'.
Cex_C5_ProtocolLessInputAssessed ==
    (/\ urlPc = "done"
     /\ UrlStringInput
     /\ SchemeColon(urlReq.url.items) = 0
     /\ URLParse(<<"h","t","t","p","s",":","/","/">> \o urlReq.url.items).ok)
    => urlResp.status # 400

\* C6 (as claimed): once the heuristic analysis is made, whatever the AI
\* adapter does the request ends with that assessment and never with 500.
Cex_C6_AIFailureNeverFailsRequest ==
    (urlPc = "done" /\ urlAnalysis # None)
    => /\ urlResp.status = 200
       /\ urlResp.body.riskScore = urlAnalysis.riskScore
       /\ urlResp.body.riskLevel = urlAnalysis.riskLevel
       /\ urlResp.body.safe = urlAnalysis.safe
       /\ StartsWith(urlResp.body.threats, urlAnalysis.threats)


----------------------------------------------------------------------------
(* app/api/sms-check/route.ts *)

\* lines 9-16: each family is the sequence of its expressions
SCAM_PATTERNS ==
    [ urgency |->
        << <<Lit(<<"u","r","g","e","n","t">>)>>,
           <<Lit(<<"i","m","m","e","d","i","a","t","e","l","y">>)>>,
           <<Lit(<<"a","c","t"," ","n","o","w">>)>>,
           <<Lit(<<"e","x","p","i","r","e","s"," ","t","o","d","a","y">>)>>,
           <<Lit(<<"l","a","s","t"," ","c","h","a","n","c","e">>)>>,
           <<Lit(<<"l","i","m","i","t","e","d"," ","t","i","m","e">>)>> >>,
      prizes |->
        << <<Lit(<<"c","o","n","g","r","a","t","u","l","a","t","i","o","n","s">>)>>,
           <<Lit(<<"y","o","u","'","v","e"," ","w","o","n">>),
             Lit(<<"y","o","u"," ","w","o","n">>)>>,
           <<Lit(<<"w","i","n","n","e","r">>)>>,
           <<Lit(<<"p","r","i","z","e">>)>>,
           <<Lit(<<"l","o","t","t","e","r","y">>)>>,
           <<Lit(<<"j","a","c","k","p","o","t">>)>> >>,
      money |->
        << <<Lit(<<"$">>) \o <<One(Digit), Star(Digit)>>>>,
           <<Lit(<<"f","r","e","e"," ","m","o","n","e","y">>)>>,
           <<Lit(<<"c","a","s","h"," ","p","r","i","z","e">>)>>,
           <<Lit(<<"m","i","l","l","i","o","n">>)>>,
           <<Lit(<<"c","l","a","i","m"," ","y","o","u","r">>)>> >>,
      threats |->
        << <<Lit(<<"a","c","c","o","u","n","t">>) \o <<DotStar>> \o Lit(<<"s","u","s","p","e","n","d">>),
             Lit(<<"a","c","c","o","u","n","t">>) \o <<DotStar>> \o Lit(<<"l","o","c","k">>),
             Lit(<<"a","c","c","o","u","n","t">>) \o <<DotStar>> \o Lit(<<"c","l","o","s","e">>)>>,
           <<Lit(<<"v","e","r","i","f","y">>) \o <<DotStar>> \o Lit(<<"n","o","w">>),
             Lit(<<"v","e","r","i","f","y">>) \o <<DotStar>> \o Lit(<<"i","m","m","e","d","i","a","t","e","l","y">>)>>,
           <<Lit(<<"u","n","u","s","u","a","l"," ","a","c","t","i","v","i","t","y">>)>> >>,
      personal |->
        << <<Lit(<<"s","s","n">>)>>,
           <<Lit(<<"s","o","c","i","a","l"," ","s","e","c","u","r","i","t","y">>)>>,
           <<Lit(<<"b","a","n","k"," ","a","c","c","o","u","n","t">>)>>,
           <<Lit(<<"c","r","e","d","i","t"," ","c","a","r","d">>)>>,
           <<Lit(<<"p","a","s","s","w","o","r","d">>)>> >>,
      delivery |->
        << <<Lit(<<"p","a","c","k","a","g","e">>) \o <<DotStar>> \o Lit(<<"h","e","l","d">>),
             Lit(<<"p","a","c","k","a","g","e">>) \o <<DotStar>> \o Lit(<<"s","t","u","c","k">>),
             Lit(<<"p","a","c","k","a","g","e">>) \o <<DotStar>> \o Lit(<<"c","u","s","t","o","m","s">>)>>,
           <<Lit(<<"d","e","l","i","v","e","r","y"," ","f","a","i","l","e","d">>)>>,
           <<Lit(<<"t","r","a","c","k","i","n","g">>)>>,
           <<Lit(<<"s","h","i","p","m","e","n","t">>)>> >> ]

\* line 18: /https?:\/\/[^\s]+|www\.[^\s]+|[a-z0-9-]+\.(com|...|co)[^\s]*/gi
URL_PATTERN ==
    LET AlnumHyphen == LowerAlpha \cup Digit \cup {"-"}
        UrlPatternTLDs ==
            << <<"c","o","m">>, <<"n","e","t">>, <<"o","r","g">>, <<"x","y","z">>, <<"t","o","p">>, <<"c","l","i","c","k">>, <<"l","i","n","k">>, <<"s","i","t","e">>, <<"o","n","l","i","n","e">>, <<"t","k">>, <<"m","l">>, <<"g","a">>, <<"i","n","f","o">>, <<"c","o">> >>
    IN
    << Lit(<<"h","t","t","p">>) \o <<Opt({"s"})>> \o Lit(<<":","/","/">>) \o <<NonSpace, NonSpaceStar>>,
       Lit(<<"w","w","w",".">>) \o <<NonSpace, NonSpaceStar>> >>
    \o [i \in 1..Len(UrlPatternTLDs) |->
          <<One(AlnumHyphen), Star(AlnumHyphen), One({"."})>> \o Lit(UrlPatternTLDs[i])
          \o <<NonSpaceStar>>]
\* line 19: /(\+?1?[-.\s]?)?\(?\d{3}\)?[-.\s]?\d{3}[-.\s]?\d{4}/g
PHONE_PATTERN ==
    LET PhoneSeparator == {"-", "."} \cup Whitespace
    IN
    << << Opt({"+"}), Opt({"1"}), Opt(PhoneSeparator), Opt({"("}),
          One(Digit), One(Digit), One(Digit), Opt({")"}), Opt(PhoneSeparator),
          One(Digit), One(Digit), One(Digit), Opt(PhoneSeparator),
          One(Digit), One(Digit), One(Digit), One(Digit) >> >>


\* lines 102-113
isSuspiciousURL(url) ==
    LET suspiciousTLDs ==
            << <<".","x","y","z">>, <<".","t","o","p">>, <<".","c","l","i","c","k">>, <<".","l","i","n","k">>, <<".","s","i","t","e">>, <<".","o","n","l","i","n","e">>, <<".","t","k">>, <<".","m","l">>, <<".","g","a">> >>
        shorteners ==
            << <<"b","i","t",".","l","y">>, <<"t","i","n","y","u","r","l">>, <<"t",".","c","o">>, <<"g","o","o",".","g","l">>, <<"o","w",".","l","y">> >>
        \* \d{1,3}
        DigitsUpTo3 == <<One(Digit), Opt(Digit), Opt(Digit)>>
        \* line 110
        ipPattern ==
            << DigitsUpTo3 \o <<One({"."})>> \o DigitsUpTo3 \o <<One({"."})>> \o DigitsUpTo3
               \o <<One({"."})>> \o DigitsUpTo3 >>
        \* line 111: the four alternatives are the expressions of lines 14-15
        brandPattern ==
            << PHISHING_PATTERNS[1].re[1], PHISHING_PATTERNS[2].re[1],
               PHISHING_PATTERNS[3].re[1], PHISHING_PATTERNS[5].re[1] >>
        lower == ToLowerCase(url)
    IN  \/ SeqSome([i \in 1..Len(suspiciousTLDs) |-> Includes(lower, suspiciousTLDs[i])])
        \/ SeqSome([i \in 1..Len(shorteners) |-> Includes(lower, shorteners[i])])
        \/ Test(ipPattern, lower)
        \/ Test(brandPattern, lower)

\* lines 94-100
extractLinks(message) ==
    LET urls == StringMatch(URL_PATTERN, message, TRUE, lastIndex.URL_PATTERN).matches
    IN  [i \in 1..Len(urls) |-> [url |-> urls[i], safe |-> ~isSuspiciousURL(urls[i])]]


\* the flag names detectRedFlags pushes (lines 120-164)
FlagName ==
    [ urgency |-> <<"U","r","g","e","n","c","y"," ","T","a","c","t","i","c","s">>,
      prize |-> <<"P","r","i","z","e","/","L","o","t","t","e","r","y"," ","S","c","a","m">>,
      money |-> <<"M","o","n","e","y","-","r","e","l","a","t","e","d"," ","C","l","a","i","m","s">>,
      account |-> <<"A","c","c","o","u","n","t"," ","T","h","r","e","a","t">>,
      personal |-> <<"P","e","r","s","o","n","a","l"," ","I","n","f","o"," ","R","e","q","u","e","s","t">>,
      delivery |-> <<"D","e","l","i","v","e","r","y"," ","S","c","a","m">>,
      link |-> <<"S","u","s","p","i","c","i","o","u","s"," ","L","i","n","k">> ]

\* SCAM_PATTERNS.family.some(p => p.test(message)), for the i flag on the
\* message folded to lower case
FamilyMatches(family, folded) == SeqSome([i \in 1..Len(family) |-> Test(family[i], folded)])

\* one flag for every expression of the family that matches
familyFlags_perPattern(family, flag, folded) ==
    LET hits == SelectSeq(family, LAMBDA re : Test(re, folded))
    IN  [i \in 1..Len(hits) |-> flag]

\* lines 118-158: the if of one family, pushing its flag once
familyFlags(family, flag, folded) ==
    IF FamilyMatches(family, folded) THEN <<flag>> ELSE <<>>

\* lines 115-170; a flag stands for the object {flag, explanation}, whose
\* explanation is a fixed text that goes with the flag
detectRedFlags(message) ==
    LET urls == StringMatch(URL_PATTERN, message, TRUE, lastIndex.URL_PATTERN).matches
        folded == ToLowerCase(message)
    IN  familyFlags(SCAM_PATTERNS.urgency, FlagName.urgency, folded)
        \o familyFlags(SCAM_PATTERNS.prizes, FlagName.prize, folded)
        \o familyFlags(SCAM_PATTERNS.money, FlagName.money, folded)
        \o familyFlags(SCAM_PATTERNS.threats, FlagName.account, folded)
        \o familyFlags(SCAM_PATTERNS.personal, FlagName.personal, folded)
        \o familyFlags(SCAM_PATTERNS.delivery, FlagName.delivery, folded)
        \o (IF SeqSome([i \in 1..Len(urls) |-> isSuspiciousURL(urls[i])]) THEN <<FlagName.link>> ELSE <<>>)

\* the money test ahead of the delivery and account tests
determineScamType_moneyFirst(flags) ==
    LET flagNames == [i \in 1..Len(flags) |-> ToLowerCase(flags[i])]
        some(word) == SeqSome([i \in 1..Len(flagNames) |-> Includes(flagNames[i], word)])
    IN  IF some(<<"p","r","i","z","e">>) \/ some(<<"l","o","t","t","e","r","y">>) THEN "Prize/Lottery Scam"
        ELSE IF some(<<"m","o","n","e","y">>) THEN "Financial Scam"
        ELSE IF some(<<"d","e","l","i","v","e","r","y">>) THEN "Delivery Scam"
        ELSE IF some(<<"a","c","c","o","u","n","t">>) THEN "Account Phishing"
        ELSE IF some(<<"m","o","n","e","y">>) THEN "Financial Scam"
        ELSE IF some(<<"p","e","r","s","o","n","a","l">>) THEN "Identity Theft Attempt"
        ELSE "Suspicious Message"

\* lines 172-181
determineScamType(flags) ==
    LET flagNames == [i \in 1..Len(flags) |-> ToLowerCase(flags[i])]
        some(word) == SeqSome([i \in 1..Len(flagNames) |-> Includes(flagNames[i], word)])
    IN  IF some(<<"p","r","i","z","e">>) \/ some(<<"l","o","t","t","e","r","y">>) THEN "Prize/Lottery Scam"
        ELSE IF some(<<"d","e","l","i","v","e","r","y">>) THEN "Delivery Scam"
        ELSE IF some(<<"a","c","c","o","u","n","t">>) THEN "Account Phishing"
        ELSE IF some(<<"m","o","n","e","y">>) THEN "Financial Scam"
        ELSE IF some(<<"p","e","r","s","o","n","a","l">>) THEN "Identity Theft Attempt"
        ELSE "Suspicious Message"

\* lines 183-198
getDefaultAdvice(isScam) ==
    IF isScam
    THEN << "Do NOT click any links in this message",
            "Do NOT reply or provide any personal information",
            "Block the sender's number",
            "Report this message to your carrier (forward to 7726/SPAM)",
            "Delete the message" >>
    ELSE << "The message appears safe, but always stay vigilant",
            "If you're unsure, contact the company directly through their official website",
            "Never share sensitive information via SMS" >>


----------------------------------------------------------------------------
(* Inputs of the sms check *)

MaxWords == 2


\* "Congratulations! You've won $1,000,000! Click bit.ly/win123"
ExampleMessage ==
    <<"C","o","n","g","r","a","t","u","l","a","t","i","o","n","s","!"," ","Y","o","u","'","v","e"," ","w","o","n"," ","$","1",",","0","0","0",",","0","0","0","!"," ","C","l","i","c","k"," ","b","i","t",".","l","y","/","w","i","n","1","2","3">>

\* the messages submitted: up to MaxWords phrases joined by spaces, and a few
\* whole messages
SmsMessages ==
    LET SmsWords ==
            { <<"U","R","G","E","N","T">>,
              <<"w","i","n","n","e","r">>,
              <<"$","1","0","0">>,
              <<"a","c","c","o","u","n","t"," ","l","o","c","k","e","d">>,
              <<"p","a","s","s","w","o","r","d">>,
              <<"t","r","a","c","k","i","n","g">>,
              <<"e","v","i","l",".","x","y","z">>,
              <<"e","x","a","m","p","l","e",".","c","o","m">>,
              <<"5","5","5","-","1","2","3","-","4","5","6","7">> }
        ExtraMessages ==
            { ExampleMessage,
              <<"U","R","G","E","N","T"," ","w","i","n","n","e","r"," ","$","1","0","0"," ","a","c","c","o","u","n","t"," ","l","o","c","k","e","d"," ","p","a","s","s","w","o","r","d"," ","t","r","a","c","k","i","n","g"," ","e","v","i","l",".","x","y","z"," ","5","5","5","-","1","2","3","-","4","5","6","7">>,
              <<"a","c","c","o","u","n","t","\n","l","o","c","k","e","d">>,
              <<"c","a","l","l"," ","5","5","5","1","2","3","4","5","6","7"," ","o","r"," ","(","5","5","5",")"," ","1","2","3","-","4","5","6","7"," ","o","r"," ","5","5","5",".","1","2","3",".","4","5","6","7"," ","o","r"," ","+","1"," ","5","5","5"," ","1","2","3"," ","4","5","6","7">>,
              <<"l","o","c","k","e","d"," ","a","c","c","o","u","n","t">>,
              <<"w","i","n","n","e","r"," ","p","r","i","z","e"," ","h","e","l","l","o">>,
              <<"v","i","s","i","t"," ","h","t","t","p",":","/","/","1","9","2",".","1","6","8",".","1",".","1","/","l","o","g","i","n"," ","o","r"," ","w","w","w",".","P","a","y","P","a","1",".","c","o","m"," ","n","o","w">> }
        WordSeqs == UNION {[1..n -> SmsWords] : n \in 0..MaxWords}
    IN  {JoinWith(ws, <<" ">>) : ws \in WordSeqs} \cup ExtraMessages

\* the body of the request: json = FALSE when request.json() rejects
SmsRequests ==
    {[json |-> FALSE, message |-> JSUndefined]}
    \cup {[json |-> TRUE, message |-> m] : m \in {JSUndefined, JSNumber(7)}}
    \cup {[json |-> TRUE, message |-> JSString(s)] : s \in SmsMessages}


SmsAIOutcomes ==
    LET AIVerdicts == {JSBoolean(TRUE), JSBoolean(FALSE), JSUndefined, JSNumber(0),
                       JSString(<<"f","a","l","s","e">>)}
        AILabels == {JSUndefined, JSString(<<"AI label">>)}
        SmsAIValues ==
            {JSNull, JSNumber(1), JSString(<<"o","k">>)}
            \cup {JSObject([isScam |-> v, scamType |-> l, summary |-> l]) :
            v \in AIVerdicts, l \in AILabels}
            \cup {JSObject([isScam |-> JSBoolean(TRUE), advice |-> JSArray(<<"AI advice">>)])}
        SmsAITexts ==
            {<<TokPayload(val)>> : val \in SmsAIValues}
            \cup {<<Tok("fence"), Tok("json"), Tok("space"), TokPayload(JSObject([isScam |-> v])), Tok("space"),
            Tok("fence")>> : v \in {JSBoolean(TRUE), JSBoolean(FALSE)}}
            \cup {<<Tok("garbage")>>}
    IN  {AIReject, AIStatus(FALSE), AIBody("invalid"), AIBody("null"), AIBody("object")}
        \cup {AIText(toks) : toks \in SmsAITexts}

----------------------------------------------------------------------------
(* POST /api/sms-check *)

\* line 40-42: the score before the clamp of line 43
smsRunningScore(redFlags, extractedLinks, extractedPhones) ==
    Len(redFlags) * 15
    + (IF SeqSome([i \in 1..Len(extractedLinks) |-> ~extractedLinks[i].safe]) THEN 25 ELSE 0)
    + (IF Len(extractedPhones) > 0 /\ Len(redFlags) > 0 THEN 10 ELSE 0)

\* line 43
smsClamp(riskScore) == Min(100, riskScore)

\* the floor forgotten
smsAdjustScore_noFloor(riskScore, aiResult) ==
    LET verdict == Truthy(GetProp(aiResult, "isScam"))
        raised == IF verdict /\ riskScore < 50 THEN 60 ELSE riskScore
    IN  IF ~verdict /\ raised < 30 THEN raised - 10 ELSE raised

\* the raise applied up to and including 50
smsAdjustScore_inclusive(riskScore, aiResult) ==
    LET verdict == Truthy(GetProp(aiResult, "isScam"))
        raised == IF verdict /\ riskScore <= 50 THEN 60 ELSE riskScore
    IN  IF ~verdict /\ raised < 30 THEN Max(0, raised - 10) ELSE raised

\* lines 59-60, for a truthy aiResult
smsAdjustScore(riskScore, aiResult) ==
    LET verdict == Truthy(GetProp(aiResult, "isScam"))
        raised == IF verdict /\ riskScore < 50 THEN 60 ELSE riskScore
    IN  IF ~verdict /\ raised < 30 THEN Max(0, raised - 10) ELSE raised

\* lines 65-70
smsRiskLevel(riskScore) ==
    IF riskScore >= 80 THEN "critical"
    ELSE IF riskScore >= 60 THEN "high"
    ELSE IF riskScore >= 40 THEN "medium"
    ELSE IF riskScore >= 20 THEN "low"
    ELSE "safe"

\* line 73
smsIsScam(riskScore) == riskScore >= 40

\* line 74
smsConfidence(riskScore) == Min(99, riskScore + 20)

\* a text of the handler's own as a string value
OwnText(s) == Simple("string", 0, <<s>>)

\* lines 46-51: the aiAnalysis object before the AI call
smsDefaultAnalysis(redFlags, riskScore) ==
    [isScam |-> Simple("boolean", IF riskScore >= 40 THEN 1 ELSE 0, <<>>),
     scamType |-> OwnText(determineScamType(redFlags)),
     summary |-> OwnText("Basic pattern analysis complete."),
     advice |-> Simple("array", 0, getDefaultAdvice(riskScore >= 40))]

\* line 57: { ...aiAnalysis, ...aiResult } for the four properties the handler
\* reads; a property aiResult does not carry keeps its default
smsSpread(aiAnalysis, aiResult) ==
    [k \in DOMAIN aiAnalysis |->
        IF GetProp(aiResult, k).t # "undefined" THEN GetProp(aiResult, k)
        ELSE aiAnalysis[k]]


\* lines 64-83; riskScoreLocal is the local riskScore, which the body does not
\* carry, and analyzedAt (the time of the call) is left out
smsResponse(local, riskScore, aiAnalysis) ==
    JsonResponse(200,
        [isScam |-> smsIsScam(riskScore),
         confidence |-> smsConfidence(riskScore),
         scamType |-> aiAnalysis.scamType,
         riskLevel |-> smsRiskLevel(riskScore),
         redFlags |-> local.redFlags,
         extractedLinks |-> local.extractedLinks,
         extractedPhones |-> SubSeq(local.extractedPhones, 1, Min(3, Len(local.extractedPhones))),
         aiSummary |-> aiAnalysis.summary,
         advice |-> aiAnalysis.advice,
         riskScoreLocal |-> riskScore])

\* lines 32-51: the handler's locals before the AI call; runningScore is
\* riskScore before the clamp of line 43
smsScored(extractedLinks, extractedPhones, redFlags, running) ==
    [extractedLinks |-> extractedLinks,
     extractedPhones |-> extractedPhones,
     redFlags |-> redFlags,
     runningScore |-> running,
     riskScore |-> smsClamp(running),
     aiAnalysis |-> smsDefaultAnalysis(redFlags, smsClamp(running))]
smsExtracted(extractedLinks, extractedPhones, redFlags) ==
    smsScored(extractedLinks, extractedPhones, redFlags,
              smsRunningScore(redFlags, extractedLinks, extractedPhones))
smsLocals(message) ==
    smsExtracted(extractLinks(message),
                 StringMatch(PHONE_PATTERN, message, FALSE, lastIndex.PHONE_PATTERN).matches,
                 detectRedFlags(message))

\* lines 21-55 up to the await of getAIAnalysis
SmsPost ==
    /\ smsPc = "idle"
    /\ smsAiResult' = None
    /\ \E req \in SmsRequests :
        /\ smsReq' = req
        /\ IF ~req.json
           THEN /\ smsResp' = JsonResponse(500, ErrorBody("Failed to analyze message"))
                /\ smsLocal' = None
                /\ smsPc' = "done"
                /\ UNCHANGED lastIndex
           ELSE IF ~Truthy(req.message) \/ req.message.t # "string"
           THEN /\ smsResp' = JsonResponse(400, ErrorBody("Message is required"))
                /\ smsLocal' = None
                /\ smsPc' = "done"
                /\ UNCHANGED lastIndex
           ELSE \E local \in {smsLocals(req.message.items)} :
                    /\ smsLocal' = local
                    /\ lastIndex' =
                         [URL_PATTERN |-> StringMatch(URL_PATTERN, req.message.items, TRUE,
                                                      lastIndex.URL_PATTERN).lastIndex,
                          PHONE_PATTERN |-> StringMatch(PHONE_PATTERN, req.message.items, FALSE,
                                                        lastIndex.PHONE_PATTERN).lastIndex]
                    /\ IF env_GEMINI_API_KEY
                       THEN smsPc' = "ai" /\ smsResp' = None
                       ELSE /\ smsPc' = "done"
                            /\ smsResp' = smsResponse(local, local.riskScore,
                                                      local.aiAnalysis)
    /\ UNCHANGED <<env_GEMINI_API_KEY, urlVars, pwdVars, restVars>>

\* lines 200-247
smsGetAIAnalysis(outcome) ==
    IF outcome.fetch = "reject" THEN JSNull
    ELSE IF ~outcome.ok THEN JSNull
    ELSE IF outcome.body # "object" THEN JSNull
    ELSE IF ~outcome.hasText \/ outcome.text = <<>> THEN JSNull
    ELSE IF ~JSONParses(CleanText(outcome.text)) THEN JSNull
    ELSE JSONParse(CleanText(outcome.text))

\* lines 55-83: getAIAnalysis settles, the handler blends its result and answers
SmsAIReturn ==
    /\ smsPc = "ai"
    /\ \E outcome \in SmsAIOutcomes :
        LET aiResult == smsGetAIAnalysis(outcome)
        IN  /\ smsAiResult' = aiResult
            /\ smsResp' =
                IF Truthy(aiResult)
                THEN smsResponse(smsLocal, smsAdjustScore(smsLocal.riskScore, aiResult),
                                 smsSpread(smsLocal.aiAnalysis, aiResult))
                ELSE smsResponse(smsLocal, smsLocal.riskScore, smsLocal.aiAnalysis)
    /\ smsPc' = "done"
    /\ UNCHANGED <<env_GEMINI_API_KEY, smsReq, smsLocal, lastIndex, urlVars, pwdVars, restVars>>

\* the response is sent; the route handles the next request
SmsNext ==
    /\ smsPc = "done"
    /\ smsPc' = "idle"
    /\ smsReq' = None
    /\ smsLocal' = None
    /\ smsAiResult' = None
    /\ smsResp' = None
    /\ UNCHANGED <<env_GEMINI_API_KEY, lastIndex, urlVars, pwdVars, restVars>>

NextSms == SmsPost \/ SmsAIReturn \/ SmsNext
SpecSms == Init /\ [][NextSms]_vars


----------------------------------------------------------------------------
(* Properties of the sms check *)

\* the handler has returned an assessment
SmsAssessed == smsPc = "done" /\ smsResp.status = 200
\* the heuristic part of the handler has run for the request in hand
SmsScored == smsPc \in {"ai", "done"} /\ smsLocal # None

\* the six keyword families with the flag of each, in the order of the code
KeywordFamilies ==
    << [family |-> SCAM_PATTERNS.urgency, flag |-> FlagName.urgency],
       [family |-> SCAM_PATTERNS.prizes, flag |-> FlagName.prize],
       [family |-> SCAM_PATTERNS.money, flag |-> FlagName.money],
       [family |-> SCAM_PATTERNS.threats, flag |-> FlagName.account],
       [family |-> SCAM_PATTERNS.personal, flag |-> FlagName.personal],
       [family |-> SCAM_PATTERNS.delivery, flag |-> FlagName.delivery] >>
\* the families that match the message of the request in hand
MatchedFamilies ==
    LET folded == ToLowerCase(smsReq.message.items)
    IN  SelectSeq(KeywordFamilies, LAMBDA f : \E i \in 1..Len(f.family) : Test(f.family[i], folded))
HasUnsafeLink == \E i \in 1..Len(smsLocal.extractedLinks) : ~smsLocal.extractedLinks[i].safe
HasPhone == Len(smsLocal.extractedPhones) > 0
HasLinkFlag == \E i \in 1..Len(smsLocal.redFlags) : smsLocal.redFlags[i] = FlagName.link

\* C7: each of the six keyword families that matches the text contributes
\* exactly one finding and exactly 15 points, however many of its expressions
\* match; a family that does not match contributes nothing.  (What is left of
\* the running score is what the link and the phone numbers add.)
Thm_C7_OneFindingPerFamily ==
    SmsScored =>
        LET matched == MatchedFamilies
            keywordFlags == SelectSeq(smsLocal.redFlags, LAMBDA f : f # FlagName.link)
            others == (IF HasLinkFlag THEN 15 ELSE 0)
                      + (IF HasUnsafeLink THEN 25 ELSE 0)
                      + (IF HasPhone /\ smsLocal.redFlags # <<>> THEN 10 ELSE 0)
        IN  /\ keywordFlags = [i \in 1..Len(matched) |-> matched[i].flag]
            /\ smsLocal.runningScore - others = 15 * Len(matched)

\* a message that two expressions of the prize family match, and that another
\* family does not match
Wit_C7_TwoExpressionsOneFlag ==
    /\ SmsScored
    /\ LET folded == ToLowerCase(smsReq.message.items)
       IN  /\ Cardinality({i \in 1..Len(SCAM_PATTERNS.prizes) :
                              Test(SCAM_PATTERNS.prizes[i], folded)}) >= 2
           /\ ~FamilyMatches(SCAM_PATTERNS.delivery, folded)
    /\ smsLocal.runningScore = 15

\* C8 (as claimed): a suspicious extracted URL raises the running score by
\* exactly 25 over what the matched families and the phone numbers give
\* without it (15 per family, and 10 when a family and a phone number meet).
Cex_C8_SuspiciousLinkAdds25 ==
    SmsScored =>
        smsLocal.runningScore =
            15 * Len(MatchedFamilies)
            + (IF HasPhone /\ Len(MatchedFamilies) > 0 THEN 10 ELSE 0)
            + (IF HasUnsafeLink THEN 25 ELSE 0)

\* C9 (as claimed): the 10 points of the co-occurrence bonus are in the
\* running score exactly when a phone number was extracted and at least one
\* of the six keyword families matched.
Cex_C9_BonusNeedsKeywordFamily ==
    SmsScored =>
        LET bonus == smsLocal.runningScore - 15 * Len(smsLocal.redFlags)
                     - (IF HasUnsafeLink THEN 25 ELSE 0)
        IN  (bonus = 10) <=> (HasPhone /\ Len(MatchedFamilies) > 0)

TierOfSmsScore(s) ==
    IF s >= 80 THEN "critical" ELSE IF s >= 60 THEN "high"
    ELSE IF s >= 40 THEN "medium" ELSE IF s >= 20 THEN "low" ELSE "safe"

\* C10: in every sms assessment, with or without AI augmentation, isScam,
\* riskLevel and confidence come from one final score s in 0..100:
\* isScam = (s >= 40), riskLevel the step function 80/60/40/20 of s,
\* confidence = min(99, s + 20); so isScam holds exactly for the levels
\* medium, high and critical, and confidence is in 20..99.
Thm_C10_OneFinalScore ==
    SmsAssessed =>
        LET b == smsResp.body
            s == b.riskScoreLocal
        IN  /\ s \in 0..100
            /\ b.isScam <=> (s >= 40)
            /\ b.riskLevel = TierOfSmsScore(s)
            /\ b.confidence = Min(99, s + 20)
            /\ b.isScam <=> (b.riskLevel \in {"medium", "high", "critical"})
            /\ b.confidence \in 20..99

\* an assessment whose score the AI verdict raised to 60
Wit_C10_RaisedByAI ==
    /\ SmsAssessed
    /\ smsLocal.riskScore < 40
    /\ smsResp.body.riskScoreLocal = 60
    /\ smsResp.body.isScam
    /\ smsResp.body.riskLevel = "high"
    /\ smsResp.body.confidence = 80

\* the AI call has settled and the handler has answered
SmsAugmented == SmsAssessed /\ smsAiResult # None

\* C11: when the AI adapter returns a verdict (a boolean isScam) for a message
\* with heuristic score h, the final score is 60 if the verdict is scam and
\* h < 50, max(0, h - 10) if the verdict is not-scam and h < 30, and h in every
\* other case; a not-scam verdict never raises the score; when the adapter
\* returns nothing (null) the final score is h.
Thm_C11_NudgeRules ==
    SmsAugmented =>
        LET h == smsLocal.riskScore
            s == smsResp.body.riskScoreLocal
            v == GetProp(smsAiResult, "isScam")
            scam == v.t = "boolean" /\ v.num = 1
            notScam == v.t = "boolean" /\ v.num = 0
        IN  /\ scam /\ h < 50 => s = 60
            /\ scam /\ h >= 50 => s = h
            /\ notScam /\ h < 30 => s = (IF h - 10 > 0 THEN h - 10 ELSE 0)
            /\ notScam /\ h >= 30 => s = h
            /\ notScam => s <= h
            /\ smsAiResult = JSNull => s = h

\* a scam verdict for a message scored exactly 50: the score stays 50
Wit_C11_ScamVerdictAtFifty ==
    /\ SmsAugmented
    /\ GetProp(smsAiResult, "isScam") = Simple("boolean", 1, <<>>)
    /\ smsLocal.riskScore = 50
    /\ smsResp.body.riskScoreLocal = 50


\* the label the priority order prize/lottery > delivery > account-threat >
\* financial > personal-info > generic gives for a sequence of findings
ClaimedScamType(flags) ==
    LET has(f) == \E i \in 1..Len(flags) : flags[i] = f
    IN  IF has(FlagName.prize) THEN "Prize/Lottery Scam"
        ELSE IF has(FlagName.delivery) THEN "Delivery Scam"
        ELSE IF has(FlagName.account) THEN "Account Phishing"
        ELSE IF has(FlagName.money) THEN "Financial Scam"
        ELSE IF has(FlagName.personal) THEN "Identity Theft Attempt"
        ELSE "Suspicious Message"

\* C12 (as claimed): the scamType of every message result is the label of the
\* highest-priority family among its findings.
Cex_C12_ResultLabelFromFindings ==
    SmsAssessed => smsResp.body.scamType = OwnText(ClaimedScamType(smsLocal.redFlags))

\* C12 (amended): the label the handler computes before the AI call is that of
\* the highest-priority family among the findings (generic for urgency and
\* suspicious-link only), and it is the scamType of the result unless the AI
\* result carries a scamType of its own, which then replaces it.
Thm_C12_LabelUnlessAIReplaces ==
    SmsScored =>
        LET label == OwnText(ClaimedScamType(smsLocal.redFlags))
            fromAI == IF smsAiResult # None /\ Truthy(smsAiResult)
                      THEN GetProp(smsAiResult, "scamType") ELSE PropUndefined
        IN  /\ smsLocal.aiAnalysis.scamType = label
            /\ SmsAssessed =>
                  smsResp.body.scamType = (IF fromAI.t = "undefined" THEN label ELSE fromAI)

\* money and delivery findings without a prize finding, answered without a
\* label from the AI: the delivery label wins
Wit_C12_DeliveryOverMoney ==
    /\ SmsAssessed
    /\ \E i \in 1..Len(smsLocal.redFlags) : smsLocal.redFlags[i] = FlagName.money
    /\ \E i \in 1..Len(smsLocal.redFlags) : smsLocal.redFlags[i] = FlagName.delivery
    /\ smsResp.body.scamType = OwnText("Delivery Scam")


\* C13 (as claimed): for the message "Congratulations! You've won $1,000,000!
\* Click bit.ly/win123" the heuristic result has scamType 'Prize/Lottery Scam',
\* isScam = true, and extractedLinks holds the shortener URL with safe = false.
Cex_C13_ShortenerExample ==
    (SmsScored /\ smsReq.message.items = ExampleMessage)
    => /\ smsLocal.aiAnalysis.scamType = OwnText("Prize/Lottery Scam")
       /\ smsLocal.aiAnalysis.isScam = Simple("boolean", 1, <<>>)
       /\ \E i \in 1..Len(smsLocal.extractedLinks) :
              /\ Includes(smsLocal.extractedLinks[i].url, <<"b","i","t",".","l","y">>)
              /\ ~smsLocal.extractedLinks[i].safe


----------------------------------------------------------------------------
(* The password check (app/api/password-check/route.ts) *)

COMMON_PASSWORDS ==
    {
     <<"p","a","s","s","w","o","r","d">>, <<"1","2","3","4","5","6">>, <<"1","2","3","4","5","6","7","8">>,
     <<"q","w","e","r","t","y">>, <<"a","b","c","1","2","3">>, <<"p","a","s","s","w","o","r","d","1">>,
     <<"1","1","1","1","1","1">>, <<"1","2","3","4","5","6","7">>, <<"i","l","o","v","e","y","o","u">>,
     <<"a","d","o","b","e","1","2","3">>, <<"a","d","m","i","n">>, <<"l","e","t","m","e","i","n">>,
     <<"w","e","l","c","o","m","e">>, <<"m","o","n","k","e","y">>, <<"l","o","g","i","n">>,
     <<"p","r","i","n","c","e","s","s">>, <<"m","a","s","t","e","r">>, <<"d","r","a","g","o","n">>}

\* PATTERNS.keyboard and PATTERNS.sequential carry the i flag: they are
\* tested on the lower-cased text.  PATTERNS.repeated is (.)\1{2,}: a
\* character other than a line terminator, three times in a row.
PATTERNS ==
    [keyboard |-> <<Lit(<<"q","w","e","r","t","y">>), Lit(<<"a","s","d","f">>), Lit(<<"z","x","c","v">>), Lit(<<"1","2","3","4">>), Lit(<<"q","a","z","w","s","x">>)>>,
     sequential |-> <<Lit(<<"0","1","2">>), Lit(<<"1","2","3">>), Lit(<<"2","3","4">>), Lit(<<"3","4","5">>),
                     Lit(<<"4","5","6">>), Lit(<<"5","6","7">>), Lit(<<"6","7","8">>), Lit(<<"7","8","9">>),
                     Lit(<<"8","9","0">>), Lit(<<"a","b","c">>), Lit(<<"b","c","d">>), Lit(<<"c","d","e">>),
                     Lit(<<"d","e","f">>)>>]

pwdRepeated(password) ==
    \E i \in 1..(Len(password) - 2) :
        /\ password[i] \notin {"\n", "\r"}
        /\ password[i + 1] = password[i]
        /\ password[i + 2] = password[i]

pwdIsCommon_substring(password) ==
    \E p \in COMMON_PASSWORDS : Includes(ToLowerCase(password), p)

\* COMMON_PASSWORDS.has(password.toLowerCase())
pwdIsCommon(password) == ToLowerCase(password) \in COMMON_PASSWORDS

pwdDeduct_noFloor(score, amount) == score - amount

\* score = Math.max(0, score - amount)
pwdDeduct(score, amount) == Max(0, score - amount)

\* the entropy bonus: entropy = length * log2(max(charsetSize, 1)), compared
\* with 60, 40 and 28.  log2 is taken in millionths (rounded down); no
\* product of a length below 200 and a charset size lies within a millionth
\* per character of a threshold, so the comparisons are those of the floats.
pwdEntropyBonus(length, charsetSize) ==
    LET microLog2 ==
            CASE charsetSize = 0 -> 0
              [] charsetSize = 10 -> 3321928
              [] charsetSize = 26 -> 4700439
              [] charsetSize = 32 -> 5000000
              [] charsetSize = 36 -> 5169925
              [] charsetSize = 42 -> 5392317
              [] charsetSize = 52 -> 5700439
              [] charsetSize = 58 -> 5857980
              [] charsetSize = 62 -> 5954196
              [] charsetSize = 68 -> 6087462
              [] charsetSize = 84 -> 6392317
              [] charsetSize = 94 -> 6554588
        entropy == length * microLog2
    IN  IF entropy > 60 * 1000000 THEN 15
        ELSE IF entropy > 40 * 1000000 THEN 10
        ELSE IF entropy > 28 * 1000000 THEN 5
        ELSE 0

pwdStrength_inclusive(score) ==
    IF score <= 30 THEN "weak"
    ELSE IF score <= 50 THEN "fair"
    ELSE IF score <= 70 THEN "good"
    ELSE IF score <= 90 THEN "strong"
    ELSE "excellent"

pwdStrength(score) ==
    IF score < 30 THEN "weak"
    ELSE IF score < 50 THEN "fair"
    ELSE IF score < 70 THEN "good"
    ELSE IF score < 90 THEN "strong"
    ELSE "excellent"

\* analyzePassword.  The result carries, besides the fields of the source's
\* object, the running score after each stage (afterClasses, afterCommon,
\* afterKeyboard, afterRepeated) and the entropy bonus.  crackTime is left
\* out: it is a text derived from charsetSize ^ length alone, which no
\* other field depends on.  A check is its name and whether it passed.
analyzePassword(password) ==
    LET length == Len(password)
        hasUpper == \E i \in 1..length : password[i] \in UpperAlpha
        hasLower == \E i \in 1..length : password[i] \in LowerAlpha
        hasNumber == \E i \in 1..length : password[i] \in Digit
        hasSpecial == \E i \in 1..length : password[i] \notin (Alpha \cup Digit)
        lengthPoints == IF length >= 16 THEN 30
                        ELSE IF length >= 12 THEN 20
                        ELSE IF length >= 8 THEN 10
                        ELSE 0
        afterClasses == lengthPoints
                        + (IF hasUpper THEN 10 ELSE 0)
                        + (IF hasLower THEN 10 ELSE 0)
                        + (IF hasNumber THEN 10 ELSE 0)
                        + (IF hasSpecial THEN 15 ELSE 0)
        common == pwdIsCommon(password)
        keyboard == Test(PATTERNS.keyboard, ToLowerCase(password))
        repeated == pwdRepeated(password)
        afterCommon == IF common THEN pwdDeduct(afterClasses, 40) ELSE afterClasses
        afterKeyboard == IF keyboard THEN pwdDeduct(afterCommon, 15) ELSE afterCommon
        afterRepeated == IF repeated THEN pwdDeduct(afterKeyboard, 10) ELSE afterKeyboard
        charsetSize == (IF hasLower THEN 26 ELSE 0) + (IF hasUpper THEN 26 ELSE 0)
                       + (IF hasNumber THEN 10 ELSE 0) + (IF hasSpecial THEN 32 ELSE 0)
        bonus == pwdEntropyBonus(length, charsetSize)
        score == Min(100, Max(0, afterRepeated + bonus))
        check(name, passed) == [name |-> name, passed |-> passed]
    IN  [score |-> score,
         strength |-> pwdStrength(score),
         checks |-> <<check("length", length >= 8),
                      check("uppercase", hasUpper),
                      check("lowercase", hasLower),
                      check("numbers", hasNumber),
                      check("special", hasSpecial)>>
                    \o (IF common THEN <<check("common", FALSE)>> ELSE <<>>)
                    \o (IF keyboard THEN <<check("pattern", FALSE)>> ELSE <<>>)
                    \o (IF repeated THEN <<check("repeated", FALSE)>> ELSE <<>>),
         suggestions |-> (IF length >= 12 THEN <<>>
                          ELSE IF length >= 8 THEN <<"Consider using at least 12 characters for better security">>
                          ELSE <<"Password should be at least 8 characters long">>)
                    \o (IF hasUpper THEN <<>> ELSE <<"Add uppercase letters (A-Z)">>)
                    \o (IF hasLower THEN <<>> ELSE <<"Add lowercase letters (a-z)">>)
                    \o (IF hasNumber THEN <<>> ELSE <<"Add numbers (0-9)">>)
                    \o (IF hasSpecial THEN <<>> ELSE <<"Add special characters (!@#$%^&*)">>)
                    \o (IF common THEN <<"Avoid common passwords - this one appears in many breach databases">> ELSE <<>>)
                    \o (IF keyboard THEN <<"Avoid keyboard patterns like 'qwerty' or '1234'">> ELSE <<>>)
                    \o (IF repeated THEN <<"Avoid repeating the same character multiple times">> ELSE <<>>),
         afterClasses |-> afterClasses,
         afterCommon |-> afterCommon,
         afterKeyboard |-> afterKeyboard,
         afterRepeated |-> afterRepeated,
         bonus |-> bonus]


\* crypto.createHash("sha1").update(password).digest("hex") for a password of
\* ASCII characters: SHA-1 (FIPS 180-4) on 32-bit words kept as two 16-bit
\* halves <<hi, lo>>
sha1Hex(message) ==
    LET CharCode(c) ==
            LET table == <<" ","!","\"","#","$","%","&","'","(",")","*","+",",","-",".","/",
                           "0","1","2","3","4","5","6","7","8","9",":",";","<","=",">","?",
                           "@","A","B","C","D","E","F","G","H","I","J","K","L","M","N","O",
                           "P","Q","R","S","T","U","V","W","X","Y","Z","[","\\","]","^","_",
                           "grave","a","b","c","d","e","f","g","h","i","j","k","l","m","n","o",
                           "p","q","r","s","t","u","v","w","x","y","z","{","|","}","~">>
            \* ("grave" stands in the place of the grave accent, which no input holds)
            IN  31 + (CHOOSE i \in 1..Len(table) : table[i] = c)
        RECURSIVE Xor16(_, _, _)
        Xor16(a, b, n) ==
            IF n = 0 THEN 0
            ELSE ((a + b) % 2) + 2 * Xor16(a \div 2, b \div 2, n - 1)
        RECURSIVE And16(_, _, _)
        And16(a, b, n) ==
            IF n = 0 THEN 0
            ELSE ((a % 2) * (b % 2)) + 2 * And16(a \div 2, b \div 2, n - 1)
        Xor(x, y) == <<Xor16(x[1], y[1], 16), Xor16(x[2], y[2], 16)>>
        And(x, y) == <<And16(x[1], y[1], 16), And16(x[2], y[2], 16)>>
        Not32(x) == <<65535 - x[1], 65535 - x[2]>>
        Or(x, y) == Not32(And(Not32(x), Not32(y)))
        Add(x, y) ==
            LET lo == x[2] + y[2]
            IN  <<(x[1] + y[1] + (lo \div 65536)) % 65536, lo % 65536>>
        \* rotate left by n, 0 < n < 16, with p = 2^n and q = 2^(16-n)
        RotSmall(x, p, q) ==
            <<((x[1] * p) % 65536) + (x[2] \div q), ((x[2] * p) % 65536) + (x[1] \div q)>>
        Rotl1(x) == RotSmall(x, 2, 32768)
        Rotl5(x) == RotSmall(x, 32, 2048)
        Rotl30(x) == RotSmall(<<x[2], x[1]>>, 16384, 4)
        bytes == [i \in 1..Len(message) |-> CharCode(message[i])]
        zeros == (119 - Len(message)) % 64
        bitLen == 8 * Len(message)
        padded == bytes \o <<128>> \o [i \in 1..zeros |-> 0]
                  \o <<0, 0, 0, 0, 0, 0, bitLen \div 256, bitLen % 256>>
        WordAt(blk, j) ==
            <<padded[64 * blk + 4 * j + 1] * 256 + padded[64 * blk + 4 * j + 2],
              padded[64 * blk + 4 * j + 3] * 256 + padded[64 * blk + 4 * j + 4]>>
        RECURSIVE Schedule(_)
        Schedule(w) ==
            IF Len(w) = 80 THEN w
            ELSE LET t == Len(w) + 1
                 IN  Schedule(Append(w, Rotl1(Xor(Xor(w[t - 3], w[t - 8]),
                                                    Xor(w[t - 14], w[t - 16])))))
        F(t, b, c, d) ==
            IF t < 20 THEN Or(And(b, c), And(Not32(b), d))
            ELSE IF t < 40 THEN Xor(Xor(b, c), d)
            ELSE IF t < 60 THEN Or(Or(And(b, c), And(b, d)), And(c, d))
            ELSE Xor(Xor(b, c), d)
        K(t) ==
            IF t < 20 THEN <<23170, 31129>>         \* 5A827999
            ELSE IF t < 40 THEN <<28377, 60321>>    \* 6ED9EBA1
            ELSE IF t < 60 THEN <<36635, 48348>>    \* 8F1BBCDC
            ELSE <<51810, 49622>>                   \* CA62C1D6
        RECURSIVE Rounds(_, _, _)
        Rounds(t, w, s) ==
            IF t = 80 \/ Len(s) # 5 THEN s
            ELSE Rounds(t + 1, w,
                        << Add(Add(Add(Add(Rotl5(s[1]), F(t, s[2], s[3], s[4])), s[5]),
                                   K(t)), w[t + 1]),
                           s[1], Rotl30(s[2]), s[3], s[4] >>)
        RECURSIVE Blocks(_, _)
        Blocks(blk, h) ==
            IF 64 * blk >= Len(padded) THEN h
            ELSE LET s == Rounds(0, Schedule([j \in 1..16 |-> WordAt(blk, j - 1)]), h)
                 IN  Blocks(blk + 1, [i \in 1..5 |-> Add(h[i], s[i])])
        digest == Blocks(0, << <<26437, 8961>>, <<61389, 43913>>, <<39098, 56574>>,
                               <<4146, 21622>>, <<50130, 57840>> >>)
        hexDigit == <<"0","1","2","3","4","5","6","7","8","9","a","b","c","d","e","f">>
        Hex4(n) == << hexDigit[(n \div 4096) + 1], hexDigit[((n \div 256) % 16) + 1],
                      hexDigit[((n \div 16) % 16) + 1], hexDigit[(n % 16) + 1] >>
    IN  Hex4(digest[1][1]) \o Hex4(digest[1][2]) \o Hex4(digest[2][1]) \o Hex4(digest[2][2])
        \o Hex4(digest[3][1]) \o Hex4(digest[3][2]) \o Hex4(digest[4][1]) \o Hex4(digest[4][2])
        \o Hex4(digest[5][1]) \o Hex4(digest[5][2])

\* String.prototype.toUpperCase on the ASCII characters used here
ToUpperCase(s) ==
    [i \in 1..Len(s) |-> IF s[i] \in LowerAlpha
                         THEN CHOOSE u \in UpperAlpha : LowerOf[u] = s[i]
                         ELSE s[i]]

\* String.prototype.trim
StrTrim(s) ==
    LET kept == {i \in 1..Len(s) : s[i] \notin Whitespace}
    IN  IF kept = {} THEN <<>>
        ELSE SubSeq(s, CHOOSE i \in kept : \A j \in kept : i <= j,
                       CHOOSE i \in kept : \A j \in kept : i >= j)

\* parseInt(str, 10): leading white space, an optional sign, then the longest
\* run of decimal digits; NaN when there is no digit there
parseInt(str) ==
    LET kept == {i \in 1..Len(str) : str[i] \notin Whitespace}
        start == IF kept = {} THEN Len(str) + 1
                 ELSE CHOOSE i \in kept : \A j \in kept : i <= j
        signed == start <= Len(str) /\ str[start] \in {"+", "-"}
        first == IF signed THEN start + 1 ELSE start
        last == RunEnd(str, first, One(Digit)) - 1
        magnitude == DecimalValue(SubSeq(str, first, last))
    IN  IF last < first THEN Simple("NaN", 0, <<>>)
        ELSE Simple("number", IF signed /\ str[start] = "-" THEN 0 - magnitude ELSE magnitude,
                    <<>>)

checkBreachesRequest_fullHash(password) ==
    LET hash == ToUpperCase(sha1Hex(password))
    IN  [prefix |-> SubSeq(hash, 1, 5),
         suffix |-> SubSeq(hash, 6, Len(hash)),
         url |-> <<"h","t","t","p","s",":","/","/","a","p","i",".","p","w","n","e","d","p","a","s","s","w","o","r","d","s",".","c","o","m","/","r","a","n","g","e","/">> \o hash,
         userAgent |-> "CyberShield-Password-Checker",
         outcome |-> None]

\* checkBreaches up to its fetch (lines 184-195): the hash, its split, and the
\* request made: its URL and its one header
checkBreachesRequest(password) ==
    LET hash == ToUpperCase(sha1Hex(password))
        prefix == SubSeq(hash, 1, 5)
    IN  [prefix |-> prefix,
         suffix |-> SubSeq(hash, 6, Len(hash)),
         url |-> <<"h","t","t","p","s",":","/","/","a","p","i",".","p","w","n","e","d","p","a","s","s","w","o","r","d","s",".","c","o","m","/","r","a","n","g","e","/">> \o prefix,
         userAgent |-> "CyberShield-Password-Checker",
         outcome |-> None]

\* how the range request can end: fetch rejects, a response that is not ok,
\* a body whose text() rejects, or a body text
BreachReject == [kind |-> "reject", text |-> <<>>]
BreachStatus == [kind |-> "status", text |-> <<>>]
BreachBody == [kind |-> "body", text |-> <<>>]
BreachText(text) == [kind |-> "text", text |-> text]

checkBreachesScan_lastMatch(suffix, text) ==
    LET lines == Split(text, "\n")
        matches == {i \in 1..Len(lines) : StrTrim(Split(lines[i], ":")[1]) = suffix}
    IN  IF matches = {}
        THEN [threw |-> FALSE, breached |-> FALSE, count |-> Simple("number", 0, <<>>)]
        ELSE LET parts == Split(lines[CHOOSE i \in matches : \A j \in matches : i >= j], ":")
                 count == IF Len(parts) >= 2 THEN StrTrim(parts[2]) ELSE <<>>
             IN  [threw |-> FALSE, breached |-> TRUE,
                  count |-> parseInt(IF count = <<>> THEN <<"1">> ELSE count)]

\* lines 202-212: the first line whose part before the first colon, trimmed,
\* is the suffix decides; its count is parseInt(count?.trim() || "1", 10)
checkBreachesScan(suffix, text) ==
    LET lines == Split(text, "\n")
        matches == {i \in 1..Len(lines) : StrTrim(Split(lines[i], ":")[1]) = suffix}
    IN  IF matches = {}
        THEN [threw |-> FALSE, breached |-> FALSE, count |-> Simple("number", 0, <<>>)]
        ELSE LET parts == Split(lines[CHOOSE i \in matches : \A j \in matches : i <= j], ":")
                 count == IF Len(parts) >= 2 THEN StrTrim(parts[2]) ELSE <<>>
             IN  [threw |-> FALSE, breached |-> TRUE,
                  count |-> parseInt(IF count = <<>> THEN <<"1">> ELSE count)]

checkBreachesResult_uncaught(suffix, outcome) ==
    IF outcome.kind = "body"
    THEN [threw |-> TRUE, breached |-> FALSE, count |-> Simple("number", 0, <<>>)]
    ELSE IF outcome.kind # "text"
    THEN [threw |-> FALSE, breached |-> FALSE, count |-> Simple("number", 0, <<>>)]
    ELSE checkBreachesScan(suffix, outcome.text)

\* checkBreaches from the settling of its fetch on (lines 191-216).  Every
\* rejection and the response that is not ok end in {breached: false,
\* count: 0}: the function's try/catch lets nothing through (threw is never
\* TRUE).
checkBreachesResult(suffix, outcome) ==
    IF outcome.kind # "text"
    THEN [threw |-> FALSE, breached |-> FALSE, count |-> Simple("number", 0, <<>>)]
    ELSE checkBreachesScan(suffix, outcome.text)

MaxPieces == 2
MaxLines == 2

PwdStrings ==
    LET PwdPieces == {<<"a","b","c">>,
                      <<"1","2","3">>,
                      <<"a","a","a">>,
                      <<"q","w","e","r","t","y">>,
                      <<"T","r","0","u","b","4","d","o","r","&","3">>}
        ExtraPasswords ==
            {<<"p","a","s","s","w","o","r","d">>,
             <<"P","A","S","S","W","O","R","D">>,
             <<"P","a","s","s","w","o","r","d","1">>,
             <<"1","2","3","4","5","6">>,
             <<"1","2","3","4","5","6","7","8">>,
             <<"1","1","1","1","1","1">>,
             <<"a","d","m","i","n">>,
             <<"a","s","d","f">>,
             <<"A","B","C","D","E","F","G","H">>,
             <<" "," "," "," "," ">>,
             <<"!","@","#","$","%","^","&","*","(",")","-","+">>,
             <<"T","r","0","u","b","4","d","o","r","&","3","x","y","z","!","9","Q","p">>,
             <<"T","r","0","u","b","4","d","o","r","&","3","a","b","c","1","2","3">>,
             <<"T","r","0","u","b","4","d","o","r","&","3","a","a","a","1","2","3">>,
             <<"T","r","0","u","b","4","d","o","r","&","3","q","w","e","r","t","y">>,
             <<"a","b","c","d","e","f","g","h","1","A">>}
        PieceSeqs == UNION {[1..n -> PwdPieces] : n \in 0..MaxPieces}
        RECURSIVE Flat(_)
        Flat(ps) == IF ps = <<>> THEN <<>> ELSE Head(ps) \o Flat(Tail(ps))
    IN  {Flat(ps) : ps \in PieceSeqs} \cup ExtraPasswords

\* the body of the request: json = FALSE when request.json() rejects
PwdRequests ==
    {[json |-> FALSE, password |-> JSUndefined]}
    \cup {[json |-> TRUE, password |-> p] : p \in {JSUndefined, JSNull, JSNumber(12345678)}}
    \cup {[json |-> TRUE, password |-> JSString(s)] : s \in PwdStrings}

\* the range bodies: up to MaxLines lines, well formed (SUFFIX:COUNT, with or
\* without a carriage return) and not
BreachOutcomes(suffix) ==
    LET other == <<IF suffix[1] = "0" THEN "1" ELSE "0">> \o Tail(suffix)
        BreachLines ==
            {suffix \o <<":", "3">>,
             suffix \o <<":", "1", "2", "\r">>,
             other \o <<":", "9">>,
             ToLowerCase(suffix) \o <<":", "5">>,
             <<" ">> \o suffix \o <<" ", ":", " ", "7", " ">>,
             suffix,
             suffix \o <<":", "a", "b", "c">>,
             <<>>}
        LineSeqs == UNION {[1..n -> BreachLines] : n \in 0..MaxLines}
    IN  {BreachReject, BreachStatus, BreachBody}
        \cup {BreachText(JoinWith(ls, <<"\n">>)) : ls \in LineSeqs}

----------------------------------------------------------------------------
(* POST /api/password-check *)

\* lines 22-37 up to the await of checkBreaches
PwdPost ==
    /\ pwdPc = "idle"
    /\ \E req \in PwdRequests :
        /\ pwdReq' = req
        /\ IF ~req.json
           THEN /\ pwdResp' = JsonResponse(500, ErrorBody("Analysis failed"))
                /\ pwdAnalysis' = None
                /\ pwdBreach' = None
                /\ pwdPc' = "done"
           ELSE IF ~Truthy(req.password) \/ req.password.t # "string"
           THEN /\ pwdResp' = JsonResponse(400, ErrorBody("Password is required"))
                /\ pwdAnalysis' = None
                /\ pwdBreach' = None
                /\ pwdPc' = "done"
           ELSE /\ pwdAnalysis' = analyzePassword(req.password.items)
                /\ \E request \in {checkBreachesRequest(req.password.items)} :
                       pwdBreach' = request
                /\ pwdResp' = None
                /\ pwdPc' = "breach"
    /\ UNCHANGED <<env_GEMINI_API_KEY, urlVars, smsVars, restVars>>

\* lines 37-51: checkBreaches settles and the handler answers; were the
\* lookup to throw, the handler's catch would answer 500
PwdBreachReturn ==
    /\ pwdPc = "breach"
    /\ \E outcome \in BreachOutcomes(pwdBreach.suffix) :
       \E breachResult \in {checkBreachesResult(pwdBreach.suffix, outcome)} :
        /\ pwdBreach' = [pwdBreach EXCEPT !.outcome = outcome]
        /\ pwdResp' =
              IF breachResult.threw
              THEN JsonResponse(500, ErrorBody("Analysis failed"))
              ELSE JsonResponse(200,
                      [score |-> pwdAnalysis.score,
                       strength |-> pwdAnalysis.strength,
                       checks |-> pwdAnalysis.checks,
                       suggestions |-> pwdAnalysis.suggestions,
                       breached |-> breachResult.breached,
                       \* JSON.stringify writes NaN as null
                       breachCount |-> IF breachResult.count.t = "NaN"
                                       THEN Simple("null", 0, <<>>)
                                       ELSE breachResult.count])
        /\ pwdPc' = "done"
    /\ UNCHANGED <<env_GEMINI_API_KEY, pwdReq, pwdAnalysis, urlVars, smsVars, restVars>>

\* the handler has returned; the next request may arrive
PwdNext ==
    /\ pwdPc = "done"
    /\ pwdPc' = "idle"
    /\ pwdReq' = None
    /\ pwdAnalysis' = None
    /\ pwdBreach' = None
    /\ pwdResp' = None
    /\ UNCHANGED <<env_GEMINI_API_KEY, urlVars, smsVars, restVars>>

NextPwd == PwdPost \/ PwdBreachReturn \/ PwdNext

SpecPwd == Init /\ [][NextPwd]_vars


----------------------------------------------------------------------------
(* Properties of the password check *)

PwdStringInput == pwdReq # None /\ pwdReq.json /\ pwdReq.password.t = "string"
PwdAnalysed == pwdAnalysis # None
PwdAnswered == pwdPc = "done" /\ PwdStringInput

\* C14 (as the specification states it): the analysis never fails on a string;
\* every string, the empty one included, is answered with an assessment, the
\* empty one with a minimal score and the length check failing.
Cex_C14_EveryStringAssessed ==
    PwdAnswered =>
        /\ pwdResp.status = 200
        /\ pwdReq.password.items = <<>> =>
              /\ pwdResp.body.score = 0
              /\ pwdResp.body.checks[1] = [name |-> "length", passed |-> FALSE]


\* the points the specification gives for length and character classes
ClaimedBasePoints(password) ==
    LET n == Len(password)
        has(cls) == \E i \in 1..n : password[i] \in cls
    IN  (IF n >= 16 THEN 30 ELSE IF n >= 12 THEN 20 ELSE IF n >= 8 THEN 10 ELSE 0)
        + (IF has(UpperAlpha) THEN 10 ELSE 0)
        + (IF has(LowerAlpha) THEN 10 ELSE 0)
        + (IF has(Digit) THEN 10 ELSE 0)
        + (IF \E i \in 1..n : password[i] \notin (UpperAlpha \cup LowerAlpha \cup Digit)
           THEN 15 ELSE 0)

\* C15: the score is an integer from 0 to 100, built from the length and class
\* points, the penalties and the entropy bonus; the strength is the step
\* function of the score (below 30 weak, below 50 fair, below 70 good, below
\* 90 strong, else excellent), so it never falls as the score rises.
Thm_C15_ScoreAndStrength ==
    PwdAnalysed =>
        LET a == pwdAnalysis
            tiers == <<"weak", "fair", "good", "strong", "excellent">>
        IN  /\ a.score \in 0..100
            /\ a.afterClasses = ClaimedBasePoints(pwdReq.password.items)
            /\ a.afterRepeated \in (a.afterClasses - 65)..a.afterClasses
            /\ a.bonus \in {0, 5, 10, 15}
            /\ a.score = Min(100, Max(0, a.afterRepeated + a.bonus))
            /\ a.strength = tiers[1 + Cardinality({t \in {30, 50, 70, 90} : a.score >= t})]
            /\ (pwdPc = "done" /\ pwdResp.status = 200) =>
                  /\ pwdResp.body.score = a.score
                  /\ pwdResp.body.strength = a.strength

Wit_C15_ExcellentAtNinety ==
    /\ PwdAnalysed
    /\ pwdPc = "done"
    /\ pwdAnalysis.score = 90
    /\ pwdResp.body.strength = "excellent"


\* C16: a password in the common set (compared in lower case) loses 40 and
\* gets a failing 'common' check; after that and after the keyboard (15) and
\* repeated (10) deductions the running score is never negative; the entropy
\* bonus is added after all deductions; a common password ends 'weak'.
Thm_C16_DeductionsFloored ==
    PwdAnalysed =>
        LET a == pwdAnalysis
            lower == ToLowerCase(pwdReq.password.items)
            isCommon == \E p \in COMMON_PASSWORDS : p = lower
            floored(n) == IF n < 0 THEN 0 ELSE n
            failing(name) == \E i \in 1..Len(a.checks) :
                                 a.checks[i] = [name |-> name, passed |-> FALSE]
        IN  /\ isCommon <=> failing("common")
            /\ a.afterCommon = (IF isCommon THEN floored(a.afterClasses - 40)
                                ELSE a.afterClasses)
            /\ a.afterKeyboard = (IF failing("pattern") THEN floored(a.afterCommon - 15)
                                  ELSE a.afterCommon)
            /\ a.afterRepeated = (IF failing("repeated") THEN floored(a.afterKeyboard - 10)
                                  ELSE a.afterKeyboard)
            /\ a.afterCommon >= 0 /\ a.afterKeyboard >= 0 /\ a.afterRepeated >= 0
            /\ a.score = a.afterRepeated + a.bonus
            /\ isCommon => a.strength = "weak"

Wit_C16_CommonPasswordFloored ==
    /\ PwdAnalysed
    /\ pwdReq.password.items = <<"P","A","S","S","W","O","R","D">>
    /\ pwdAnalysis.afterClasses = 20
    /\ pwdAnalysis.afterCommon = 0
    /\ pwdAnalysis.strength = "weak"


\* C17 (as the specification states it): a password holding a sequential run
\* ('123', 'abc', ...) and no keyboard pattern, no repeated character and no
\* common password scores lower than its length, classes and entropy give.
Cex_C17_SequentialRunDeducted ==
    ( /\ PwdAnalysed
      /\ Test(PATTERNS.sequential, ToLowerCase(pwdReq.password.items))
      /\ \A i \in 1..Len(pwdAnalysis.checks) :
            pwdAnalysis.checks[i].name \notin {"common", "pattern", "repeated"} )
    => pwdAnalysis.score < Min(100, pwdAnalysis.afterClasses + pwdAnalysis.bonus)


\* the precondition of C18, read off the password itself
LongAndVaried(password) ==
    LET n == Len(password)
        lower == ToLowerCase(password)
    IN  /\ n >= 16
        /\ \E i \in 1..n : password[i] \in UpperAlpha
        /\ \E i \in 1..n : password[i] \in LowerAlpha
        /\ \E i \in 1..n : password[i] \in Digit
        /\ \E i \in 1..n : password[i] \notin (UpperAlpha \cup LowerAlpha \cup Digit)
        /\ lower \notin COMMON_PASSWORDS
        /\ \A k \in {<<"q","w","e","r","t","y">>, <<"a","s","d","f">>, <<"z","x","c","v">>, <<"1","2","3","4">>, <<"q","a","z","w","s","x">>} :
              ~Includes(lower, k)
        /\ \A i \in 1..(n - 2) : ~(password[i] = password[i + 1] /\ password[i] = password[i + 2])

\* C18: a password of 16 or more characters with an uppercase letter, a
\* lowercase letter, a digit and a special character that matches no common
\* password, keyboard pattern or repeated-character pattern is 'strong' or
\* 'excellent'.
Thm_C18_LongVariedIsStrong ==
    (PwdAnalysed /\ LongAndVaried(pwdReq.password.items))
    => /\ pwdAnalysis.strength \in {"strong", "excellent"}
       /\ pwdPc = "done" => /\ pwdResp.status = 200
                            /\ pwdResp.body.strength \in {"strong", "excellent"}

Wit_C18_SpecExample ==
    /\ PwdAnalysed
    /\ pwdReq.password.items = <<"T","r","0","u","b","4","d","o","r","&","3","x","y","z","!","9","Q","p">>
    /\ LongAndVaried(pwdReq.password.items)
    /\ pwdPc = "done"
    /\ pwdResp.body.strength = "excellent"


PwdLookedUp == pwdPc = "done" /\ pwdBreach # None

\* C19: the breach lookup fails open.  When the range request is rejected, is
\* answered with a status that is not ok, or its body cannot be read, the
\* lookup gives breached = false and count = 0, and the password check
\* answers 200 with the strength analysis; no outcome of the lookup makes
\* the handler answer 500.
Thm_C19_LookupFailsOpen ==
    PwdLookedUp =>
        /\ pwdResp.status = 200
        /\ pwdResp.body.score = pwdAnalysis.score
        /\ pwdResp.body.strength = pwdAnalysis.strength
        /\ pwdResp.body.checks = pwdAnalysis.checks
        /\ pwdBreach.outcome.kind \in {"reject", "status", "body"} =>
              /\ pwdResp.body.breached = FALSE
              /\ pwdResp.body.breachCount = Simple("number", 0, <<>>)

Wit_C19_UnreadableBody ==
    /\ PwdLookedUp
    /\ pwdBreach.outcome = BreachBody
    /\ pwdResp.status = 200
    /\ pwdResp.body.breached = FALSE
    /\ pwdResp.body.strength = "excellent"


\* the lines of a range body, read as SUFFIX:COUNT: 35 hexadecimal digits, a
\* colon, decimal digits, and possibly a carriage return before the newline
RangeLines(text) ==
    LET HexDigit == Digit \cup {"A","B","C","D","E","F","a","b","c","d","e","f"}
        digitsOf(l) == IF l[Len(l)] = "\r" THEN SubSeq(l, 37, Len(l) - 1)
                       ELSE SubSeq(l, 37, Len(l))
        wellFormed(l) ==
            /\ Len(l) >= 37
            /\ \A i \in 1..35 : l[i] \in HexDigit
            /\ l[36] = ":"
            /\ digitsOf(l) # <<>>
            /\ \A i \in 1..Len(digitsOf(l)) : digitsOf(l)[i] \in Digit
        lines == IF text = <<>> THEN <<>> ELSE Split(text, "\n")
    IN  [ok |-> \A i \in 1..Len(lines) : wellFormed(lines[i]),
         suffix |-> [i \in 1..Len(lines) |-> SubSeq(lines[i], 1, Min(35, Len(lines[i])))],
         count |-> [i \in 1..Len(lines) |->
                      IF wellFormed(lines[i]) THEN DecimalValue(digitsOf(lines[i])) ELSE 0]]

\* C20: for a range body of newline-delimited SUFFIX:COUNT lines the lookup
\* reports breached with the count of the first line whose suffix is, case
\* for case, the upper-case SHA-1 suffix of the password, and breached =
\* false with count 0 when no line has it; the count is a non-negative
\* integer.
Thm_C20_FirstMatchingLine ==
    (PwdLookedUp /\ pwdBreach.outcome.kind = "text")
    => \E range \in {RangeLines(pwdBreach.outcome.text)} :
        range.ok =>
         LET hits == {i \in 1..Len(range.suffix) : range.suffix[i] = pwdBreach.suffix}
             body == pwdResp.body
         IN  /\ pwdReq.password.items = <<"p","a","s","s","w","o","r","d">> =>
                    /\ pwdBreach.prefix = <<"5","B","A","A","6">>
                    /\ pwdBreach.suffix =
                          <<"1","E","4","C","9","B","9","3","F","3","F","0","6","8","2","2","5","0","B","6","C","F","8","3","3","1","B","7","E","E","6","8","F","D","8">>
             /\ body.breached = (hits # {})
             /\ body.breachCount.t = "number"
             /\ body.breachCount.num >= 0
             /\ hits = {} => body.breachCount.num = 0
             /\ \A i \in hits : (\A j \in hits : i <= j) => body.breachCount.num = range.count[i]

Wit_C20_TwoMatchingLines ==
    /\ PwdLookedUp
    /\ pwdReq.password.items = <<"p","a","s","s","w","o","r","d">>
    /\ pwdBreach.outcome.kind = "text"
    /\ pwdBreach.outcome.text = pwdBreach.suffix \o <<":", "3", "\n">>
                                \o pwdBreach.suffix \o <<":", "1", "2", "\r">>
    /\ pwdResp.body.breached
    /\ pwdResp.body.breachCount = Simple("number", 3, <<>>)


\* C21: the outbound range request carries the first five hexadecimal digits
\* of the SHA-1 hash and nothing else derived from the password: its URL is
\* the fixed range address followed by the prefix, its header is fixed, so
\* two passwords with the same prefix make the same request; neither the
\* other 35 digits nor the password are in it.
Thm_C21_OnlyPrefixSent ==
    (pwdBreach # None) =>
        LET url == pwdBreach.url
            password == pwdReq.password.items
        IN  /\ Len(pwdBreach.prefix) = 5
            /\ Len(pwdBreach.suffix) = 35
            /\ url = <<"h","t","t","p","s",":","/","/","a","p","i",".","p","w","n","e","d","p","a","s","s","w","o","r","d","s",".","c","o","m","/","r","a","n","g","e","/">> \o pwdBreach.prefix
            /\ pwdBreach.userAgent = "CyberShield-Password-Checker"
            /\ ~Includes(url, pwdBreach.suffix)
            /\ Len(url) = 42
            /\ password = <<"p","a","s","s","w","o","r","d">> => pwdBreach.prefix = <<"5","B","A","A","6">>

Wit_C21_RangeRequestMade ==
    /\ pwdBreach # None
    /\ pwdReq.password.items = <<"p","a","s","s","w","o","r","d">>
    /\ pwdBreach.url = <<"h","t","t","p","s",":","/","/","a","p","i",".","p","w","n","e","d","p","a","s","s","w","o","r","d","s",".","c","o","m","/","r","a","n","g","e","/","5","B","A","A","6">>
    /\ pwdBreach.outcome # None


----------------------------------------------------------------------------
(* The rate limiter (lib/rate-limit.ts).  rateLimitStore is a function    *)
(* from the identifiers that have an entry to their entries; the constant  *)
(* prefix of the keys is left out.  Times are in milliseconds.             *)

CLEANUP_INTERVAL == 60000

cleanupExpiredEntries_all(store, lastCleanup, now) ==
    IF now - lastCleanup < CLEANUP_INTERVAL
    THEN [store |-> store, lastCleanup |-> lastCleanup]
    ELSE [store |-> [k \in {} |-> None], lastCleanup |-> now]

cleanupExpiredEntries_inclusive(store, lastCleanup, now) ==
    IF now - lastCleanup < CLEANUP_INTERVAL
    THEN [store |-> store, lastCleanup |-> lastCleanup]
    ELSE [store |-> [k \in {j \in DOMAIN store : ~(store[j].resetAt <= now)} |-> store[k]],
          lastCleanup |-> now]

\* lines 19-29
cleanupExpiredEntries(store, lastCleanup, now) ==
    IF now - lastCleanup < CLEANUP_INTERVAL
    THEN [store |-> store, lastCleanup |-> lastCleanup]
    ELSE [store |-> [k \in {j \in DOMAIN store : ~(store[j].resetAt < now)} |-> store[k]],
          lastCleanup |-> now]

\* Math.ceil(x / 1000)
CeilSeconds(x) == 0 - ((0 - x) \div 1000)

\* lines 46-90: the store and lastCleanup after the call, and the result;
\* retryAfter is <<>> where the result has no such property
checkRateLimit(identifier, config, store, lastCleanup, now) ==
    LET cleaned == cleanupExpiredEntries(store, lastCleanup, now)
        has == identifier \in DOMAIN cleaned.store
        entry == cleaned.store[identifier]
        put(e) == [k \in DOMAIN cleaned.store \cup {identifier} |->
                      IF k = identifier THEN e ELSE cleaned.store[k]]
    IN  IF ~has \/ entry.resetAt < now
        THEN [store |-> put([count |-> 1, resetAt |-> now + config.windowMs]),
              lastCleanup |-> cleaned.lastCleanup,
              result |-> [success |-> TRUE, remaining |-> config.maxRequests - 1,
                          resetAt |-> now + config.windowMs, retryAfter |-> <<>>]]
        ELSE IF entry.count >= config.maxRequests
        THEN [store |-> cleaned.store,
              lastCleanup |-> cleaned.lastCleanup,
              result |-> [success |-> FALSE, remaining |-> 0, resetAt |-> entry.resetAt,
                          retryAfter |-> <<CeilSeconds(entry.resetAt - now)>>]]
        ELSE [store |-> put([count |-> entry.count + 1, resetAt |-> entry.resetAt]),
              lastCleanup |-> cleaned.lastCleanup,
              result |-> [success |-> TRUE,
                          remaining |-> config.maxRequests - (entry.count + 1),
                          resetAt |-> entry.resetAt, retryAfter |-> <<>>]]

\* lines 95-105: the headers set, each with its value; Retry-After is <<>>
\* where it is not set (0 and undefined are falsy)
createRateLimitHeaders(result) ==
    [h \in {"X-RateLimit-Remaining", "X-RateLimit-Reset", "Retry-After"} |->
        CASE h = "X-RateLimit-Remaining" -> <<NumToStr(result.remaining)>>
          [] h = "X-RateLimit-Reset" -> <<NumToStr(CeilSeconds(result.resetAt))>>
          [] h = "Retry-After" ->
                IF ~result.success /\ result.retryAfter # <<>> /\ result.retryAfter[1] # 0
                THEN <<NumToStr(result.retryAfter[1])>>
                ELSE <<>>]

MaxRequests == 2
MaxTicks == 3

\* the callers: two identifiers (the user part and the client part of
\* `${user?.id || 'anon'}:${getClientIdentifier(request)}`), one config for
\* the run, and the amounts by which the clock advances between calls
RlIdentifiers == {<<"anon", "10.0.0.1">>, <<"anon", "10.0.0.2">>}
RlConfigs == {[maxRequests |-> m, windowMs |-> w] : m \in 1..MaxRequests, w \in {1000, 60000}}
ClockSteps == {1, 1000, 60000}

\* one call of checkRateLimit.  rlWindow keeps, for the identifier, the
\* window in force (the resetAt fixed by the admitted call that found none
\* in force) and the number of calls admitted in it.
RlCall ==
    \E identifier \in RlIdentifiers, config \in RlConfigs :
        /\ rlConfig \in {None, config}
        /\ rlConfig' = config
        /\ \E r \in {checkRateLimit(identifier, config, rlStore, rlLastCleanup, rlNow)} :
            /\ rlStore' = r.store
            /\ rlLastCleanup' = r.lastCleanup
            /\ rlLast' = [identifier |-> identifier, now |-> rlNow,
                          stored |-> IF identifier \in DOMAIN rlStore
                                     THEN <<rlStore[identifier]>> ELSE <<>>,
                          window |-> IF identifier \in DOMAIN rlWindow
                                     THEN <<rlWindow[identifier]>> ELSE <<>>,
                          result |-> r.result,
                          headers |-> createRateLimitHeaders(r.result)]
            /\ rlWindow' =
                 LET inForce == identifier \in DOMAIN rlWindow
                                /\ ~(rlWindow[identifier].resetAt < rlNow)
                     next == IF ~r.result.success THEN rlWindow[identifier]
                             ELSE IF inForce
                             THEN [rlWindow[identifier] EXCEPT !.admitted = @ + 1]
                             ELSE [resetAt |-> rlNow + config.windowMs, admitted |-> 1]
                 IN  IF ~r.result.success /\ identifier \notin DOMAIN rlWindow
                     THEN rlWindow
                     ELSE [k \in DOMAIN rlWindow \cup {identifier} |->
                              IF k = identifier THEN next ELSE rlWindow[k]]
    /\ UNCHANGED <<env_GEMINI_API_KEY, urlVars, smsVars, pwdVars, mwVars, anVars, probe, rlNow, rlTicks>>

\* time passes
RlTick ==
    /\ rlTicks < MaxTicks
    /\ \E d \in ClockSteps : rlNow' = rlNow + d
    /\ rlTicks' = rlTicks + 1
    /\ UNCHANGED <<env_GEMINI_API_KEY, urlVars, smsVars, pwdVars, mwVars, anVars, probe,
                   rlStore, rlLastCleanup, rlConfig, rlWindow, rlLast>>

NextRl == RlCall \/ RlTick

SpecRl == Init /\ [][NextRl]_vars


----------------------------------------------------------------------------
(* Properties of the rate limiter *)

\* C27: for every identifier, with a config of maxRequests >= 1 and a clock
\* that never goes back, at most maxRequests calls are admitted within one
\* window, whatever calls for other identifiers and cleanup runs come in
\* between; an admitted call reports remaining = maxRequests minus the
\* calls admitted so far in the window, which is never negative.
Thm_C27_AtMostMaxPerWindow ==
    /\ \A id \in DOMAIN rlWindow : rlWindow[id].admitted \in 1..rlConfig.maxRequests
    /\ (rlLast # None /\ rlLast.result.success) =>
          /\ rlLast.result.remaining =
                rlConfig.maxRequests - rlWindow[rlLast.identifier].admitted
          /\ rlLast.result.remaining >= 0
          /\ rlLast.result.resetAt = rlWindow[rlLast.identifier].resetAt

Wit_C27_RejectedAfterCleanupRan ==
    /\ rlLast # None
    /\ ~rlLast.result.success
    /\ rlConfig.maxRequests = 2
    /\ rlWindow[rlLast.identifier].admitted = 2
    /\ rlLastCleanup > 0
    /\ Cardinality(DOMAIN rlStore) = 2


\* C29 (as the specification states it): a rejected call reports remaining =
\* 0, leaves the identifier's stored count and resetAt as they were, and
\* carries a retryAfter of at least one second, so that the Retry-After
\* header is set on every rejection, at the window's resetAt instant too.
Cex_C29_RejectionCarriesRetryAfter ==
    (rlLast # None /\ ~rlLast.result.success) =>
        /\ rlLast.result.remaining = 0
        /\ rlLast.stored = <<rlStore[rlLast.identifier]>>
        /\ rlLast.result.retryAfter # <<>>
        /\ rlLast.result.retryAfter[1] >= 1
        /\ rlLast.headers["Retry-After"] # <<>>


\* C30: once the clock has passed the resetAt of an identifier's window, the
\* next call for it is admitted and starts a new window with count 1 and
\* resetAt = now + windowMs, whether the expired entry is still stored or
\* cleanup has deleted it; cleanup deletes no entry whose window has not
\* expired.
Thm_C30_AdmittedAfterReset ==
    /\ (rlLast # None /\ rlLast.window # <<>> /\ rlLast.window[1].resetAt < rlLast.now) =>
          /\ rlLast.result.success
          /\ rlLast.result.remaining = rlConfig.maxRequests - 1
          /\ rlLast.result.resetAt = rlLast.now + rlConfig.windowMs
          /\ rlLast.result.retryAfter = <<>>
          /\ rlStore[rlLast.identifier] =
                [count |-> 1, resetAt |-> rlLast.now + rlConfig.windowMs]
    /\ \A id \in DOMAIN rlWindow :
          ~(rlWindow[id].resetAt < rlNow) =>
              /\ id \in DOMAIN rlStore
              /\ rlStore[id] = [count |-> rlWindow[id].admitted,
                                resetAt |-> rlWindow[id].resetAt]

Wit_C30_AdmittedAfterCleanupDeleted ==
    /\ rlLast # None
    /\ rlLast.window # <<>>
    /\ rlLast.window[1].admitted = rlConfig.maxRequests
    /\ rlLast.window[1].resetAt < rlLast.now
    /\ rlLast.stored = <<>>
    /\ rlLast.result.success
    /\ rlStore[rlLast.identifier].count = 1


----------------------------------------------------------------------------
(* The session middleware (lib/supabase/middleware.ts, updateSession) *)

\* lines 123-198.  configured: both environment values are set; lookup: how
\* supabase.auth.getUser() settles ("user", "anonymous", or "throws").  The
\* response is NextResponse.next() or a redirect to a pathname.
updateSession(pathname, configured, lookup) ==
    LET starts(prefixes) ==
            \E i \in 1..Len(prefixes) : StartsWith(pathname, prefixes[i])
        isAuthRoute == starts(<<<<"/","l","o","g","i","n">>, <<"/","s","i","g","n","u","p">>, <<"/","a","u","t","h">>>>)
        isProtectedRoute ==
            starts(<<<<"/","d","a","s","h","b","o","a","r","d">>,
                     <<"/","a","n","a","l","y","z","e">>,
                     <<"/","h","i","s","t","o","r","y">>,
                     <<"/","s","e","t","t","i","n","g","s">>,
                     <<"/","p","r","i","v","a","c","y">>>>)
        supabaseResponse == [kind |-> "next", pathname |-> pathname]
    IN  IF ~configured THEN supabaseResponse
        ELSE IF lookup = "throws" THEN supabaseResponse
        ELSE IF lookup = "anonymous" /\ isProtectedRoute
        THEN [kind |-> "redirect", pathname |-> <<"/","l","o","g","i","n">>]
        ELSE IF lookup = "user" /\ isAuthRoute
        THEN [kind |-> "redirect", pathname |-> <<"/","d","a","s","h","b","o","a","r","d">>]
        ELSE supabaseResponse

MwPaths ==
    {<<"/">>,
     <<"/","d","a","s","h","b","o","a","r","d">>,
     <<"/","d","a","s","h","b","o","a","r","d","/","r","e","p","o","r","t","s">>,
     <<"/","d","a","s","h","b","o","a","r","d","s">>,
     <<"/","a","n","a","l","y","z","e">>,
     <<"/","h","i","s","t","o","r","y">>,
     <<"/","s","e","t","t","i","n","g","s">>,
     <<"/","s","e","t","t","i","n","g","s","/","p","r","o","f","i","l","e">>,
     <<"/","p","r","i","v","a","c","y">>,
     <<"/","p","r","i","v","a","c","y","-","a","n","a","l","y","z","e","r">>,
     <<"/","l","o","g","i","n">>,
     <<"/","s","i","g","n","u","p">>,
     <<"/","a","u","t","h","/","c","a","l","l","b","a","c","k">>,
     <<"/","u","r","l","-","c","h","e","c","k">>,
     <<"/","D","a","s","h","b","o","a","r","d">>,
     <<"/","a","p","p","/","d","a","s","h","b","o","a","r","d">>}

\* one request through the middleware
MwRequest ==
    \E pathname \in MwPaths, configured \in BOOLEAN, lookup \in {"user", "anonymous", "throws"} :
        /\ mwEnv \in {None, [configured |-> configured]}
        /\ mwEnv' = [configured |-> configured]
        /\ mwLast' = [pathname |-> pathname, lookup |-> lookup,
                      response |-> updateSession(pathname, configured, lookup)]
        /\ UNCHANGED <<env_GEMINI_API_KEY, urlVars, smsVars, pwdVars, rlVars, anVars, probe>>

NextMw == MwRequest

SpecMw == Init /\ [][NextMw]_vars

\* C28 (as the specification states it): a request without an authenticated
\* user to a path starting with /dashboard, /analyze, /history, /settings or
\* /privacy is never passed through; it is redirected to /login, also when
\* the identity provider is not configured or the user lookup throws.
Cex_C28_ProtectedPathsRedirect ==
    ( /\ mwLast # None
      /\ mwLast.lookup # "user"
      /\ \E prefix \in {<<"/","d","a","s","h","b","o","a","r","d">>, <<"/","a","n","a","l","y","z","e">>, <<"/","h","i","s","t","o","r","y">>, <<"/","s","e","t","t","i","n","g","s">>, <<"/","p","r","i","v","a","c","y">>} :
            Len(mwLast.pathname) >= Len(prefix)
            /\ SubSeq(mwLast.pathname, 1, Len(prefix)) = prefix )
    => mwLast.response = [kind |-> "redirect", pathname |-> <<"/","l","o","g","i","n">>]


----------------------------------------------------------------------------
(* The content analysis (lib/gemini.ts and app/api/analyze/route.ts).     *)
(* Numbers of a threat analysis are kept in thousandths, so that a         *)
(* confidence such as 0.95 has a value: 950.                               *)

\* an object with the properties ps of a parsed analysis
GeminiObject(ps) ==
    JSValue("object", 0, <<>>,
            [k \in {"threatType", "severity", "riskScore", "confidence", "summary",
                    "explanation", "indicators", "recommendations", "riskContributions"} |->
                IF k \in DOMAIN ps THEN Simple(ps[k].t, ps[k].num, ps[k].items)
                ELSE PropUndefined])

\* Number(v) || dflt, in thousandths.  A string is an unsigned decimal
\* integer, empty, or not numeric; an array is empty or not numeric.
NumberOr(v, dflt) ==
    LET nan == CASE v.t = "number" -> FALSE
                 [] v.t = "null" -> FALSE
                 [] v.t = "boolean" -> FALSE
                 [] v.t = "string" -> ~AllDigits(v.items)
                 [] v.t = "array" -> v.items # <<>>
                 [] OTHER -> TRUE
        n == CASE v.t = "number" -> v.num
               [] v.t = "boolean" -> 1000 * v.num
               [] v.t = "string" /\ ~nan -> 1000 * DecimalValue(v.items)
               [] OTHER -> 0
    IN  IF nan \/ n = 0 THEN dflt ELSE n

\* lines 152-204, with validateThreatType and validateSeverity.  threw: the
\* function throws (JSON.parse fails, or the parsed value has no properties)
parseGeminiResponse(text) ==
    LET cleanText == CleanText(text)
        parsed == JSONParse(cleanText)
        validTypes == {"phishing", "malware", "spam", "social_engineering",
                       "credential_theft", "data_exfiltration", "url_threat", "unknown"}
        validSeverities == {"critical", "high", "medium", "low", "safe"}
        validate(x, valid, dflt) ==
            IF x.t = "string" /\ Len(x.items) = 1 /\ x.items[1] \in valid
            THEN Simple("string", 0, x.items)
            ELSE Simple("string", 0, <<dflt>>)
        given == NumberOr(GetProp(parsed, "confidence"), 500)
        confidenceValue == IF given <= 1000 THEN given * 100 ELSE given
        \* Math.round: to the nearest integer, halves upwards
        rounded == 1000 * ((confidenceValue + 500) \div 1000)
        summary == GetProp(parsed, "summary")
        list(x) == IF x.t = "array" THEN x.items ELSE <<>>
    IN  IF ~JSONParses(cleanText) THEN [threw |-> TRUE]
        ELSE IF parsed.t \in {"null", "undefined"} THEN [threw |-> TRUE]
        ELSE [threw |-> FALSE,
              result |->
                [threatType |-> validate(GetProp(parsed, "threatType"), validTypes, "unknown"),
                 severity |-> validate(GetProp(parsed, "severity"), validSeverities, "medium"),
                 riskScore |-> Max(0, Min(100000, NumberOr(GetProp(parsed, "riskScore"), 0))),
                 confidence |-> Max(0, Min(100000, rounded)),
                 \* String(parsed.summary || "Analysis complete"), for a
                 \* summary that is a string, a whole number or not truthy
                 summary |-> IF ~Truthy(summary) THEN Simple("string", 0, <<"Analysis complete">>)
                             ELSE IF summary.t = "number"
                             THEN Simple("string", 0, NumToStr(summary.num \div 1000))
                             ELSE Simple("string", 0, summary.items),
                 explanation |-> list(GetProp(parsed, "explanation")),
                 indicators |-> list(GetProp(parsed, "indicators")),
                 recommendations |-> list(GetProp(parsed, "recommendations")),
                 riskContributions |-> list(GetProp(parsed, "riskContributions"))]]

\* lines 206-279
getFallbackAnalysis(content) ==
    LET lowerContent == ToLowerCase(content)
        phishingKeywords ==
            <<<<"u","r","g","e","n","t">>,
              <<"v","e","r","i","f","y"," ","y","o","u","r"," ","a","c","c","o","u","n","t">>,
              <<"c","l","i","c","k"," ","h","e","r","e">>,
              <<"p","a","s","s","w","o","r","d">>,
              <<"s","u","s","p","e","n","d","e","d">>,
              <<"c","o","n","f","i","r","m"," ","y","o","u","r">>>>
        malwareKeywords ==
            <<<<".","e","x","e">>,
              <<".","d","l","l">>,
              <<"d","o","w","n","l","o","a","d"," ","n","o","w">>,
              <<"i","n","s","t","a","l","l">>,
              <<"r","u","n"," ","t","h","i","s">>>>
        suspiciousPatterns ==
            <<<<"h","t","t","p",":","/","/">>,
              <<"b","i","t",".","l","y">>,
              <<"t","i","n","y","u","r","l">>,
              <<"c","l","i","c","k",".">>>>
        found(kws) == {i \in 1..Len(kws) : Includes(lowerContent, kws[i])}
        RECURSIVE pushed(_, _, _)
        pushed(kws, i, each) ==
            IF i > Len(kws) THEN <<>>
            ELSE (IF i \in found(kws)
                  THEN <<[type |-> "keyword", value |-> kws[i], riskContribution |-> each,
                          description |-> IF each = 15
                                          THEN "Common phishing keyword detected"
                                          ELSE "Potential malware indicator"]>>
                  ELSE <<>>) \o pushed(kws, i + 1, each)
        indicators == pushed(phishingKeywords, 1, 15) \o pushed(malwareKeywords, 1, 20)
        riskScore == Min(100, 10 + 15 * Cardinality(found(phishingKeywords))
                              + 20 * Cardinality(found(malwareKeywords))
                              + 10 * Cardinality(found(suspiciousPatterns)))
        severity == IF riskScore >= 70 THEN "high"
                    ELSE IF riskScore >= 40 THEN "medium"
                    ELSE IF riskScore >= 20 THEN "low"
                    ELSE "safe"
        threatType == IF riskScore >= 70 /\ indicators # <<>> /\ indicators[1].type = "keyword"
                      THEN "phishing" ELSE "unknown"
    IN  [threatType |-> Simple("string", 0, <<threatType>>),
         severity |-> Simple("string", 0, <<severity>>),
         riskScore |-> 1000 * riskScore,
         confidence |-> 1000 * 60,
         summary |-> Simple("string", 0, <<"Fallback analysis - AI service temporarily unavailable">>),
         explanation |-> <<[title |-> "Basic Analysis", severity |-> severity]>>,
         indicators |-> indicators,
         recommendations |-> IF riskScore > 30
                             THEN <<"Review content carefully", "Verify sender if applicable">>
                             ELSE <<"No immediate action required">>,
         riskContributions |-> <<[factor |-> "Keyword Detection", weight |-> 100]>>]

\* analyzeWithGemini with parseGeminiResponse called outside the try block
analyzeWithGemini_uncaught(content, outcome) ==
    IF outcome.fetch = "reject" \/ ~outcome.ok \/ outcome.body # "object"
       \/ ~outcome.hasText \/ outcome.text = <<>>
    THEN [rejected |-> FALSE, value |-> getFallbackAnalysis(content)]
    ELSE IF parseGeminiResponse(outcome.text).threw
    THEN [rejected |-> TRUE, value |-> None]
    ELSE [rejected |-> FALSE, value |-> parseGeminiResponse(outcome.text).result]

\* lines 73-137, from the settling of the fetch on.  rejected: the promise
\* the function returns rejects; value: what it resolves to.  Every throw
\* is inside the try block, whose catch returns the fallback.
analyzeWithGemini(content, outcome) ==
    \* the fetch rejects; !response.ok; response.json() rejects or gives
    \* null; data.error; no text candidate or an empty one
    IF outcome.fetch = "reject" \/ ~outcome.ok \/ outcome.body # "object"
       \/ ~outcome.hasText \/ outcome.text = <<>>
    THEN [rejected |-> FALSE, value |-> getFallbackAnalysis(content)]
    ELSE IF parseGeminiResponse(outcome.text).threw
    THEN [rejected |-> FALSE, value |-> getFallbackAnalysis(content)]
    ELSE [rejected |-> FALSE, value |-> parseGeminiResponse(outcome.text).result]


\* rateLimitConfigs.analysis
rateLimitConfigs_analysis == [maxRequests |-> 20, windowMs |-> 60000]

\* contents of a request: without keywords, at each step of the fallback's
\* severity, and with every keyword of the fallback
AnContents ==
    {<<"h","e","l","l","o">>,
     <<"s","e","e"," ","h","t","t","p",":","/","/","e","x","a","m","p","l","e",".","c","o","m">>,
     <<"u","r","g","e","n","t"," ","p","a","s","s","w","o","r","d">>,
     <<"i","n","s","t","a","l","l"," ",".","e","x","e"," ",".","d","l","l">>,
     <<"U","R","G","E","N","T",":"," ","v","e","r","i","f","y"," ","y","o","u","r"," ","a","c","c","o","u","n","t",","," ","c","l","i","c","k"," ","h","e","r","e","."," ","p","a","s","s","w","o","r","d"," ","s","u","s","p","e","n","d","e","d",","," ","c","o","n","f","i","r","m"," ","y","o","u","r"," ","d","o","w","n","l","o","a","d"," ","n","o","w"," ","i","n","s","t","a","l","l"," ","r","u","n"," ","t","h","i","s"," ",".","e","x","e"," ",".","d","l","l"," ","h","t","t","p",":","/","/","b","i","t",".","l","y"," ","t","i","n","y","u","r","l"," ","c","l","i","c","k",".">>}

\* the request: whether createClient and getUser succeed (for a visitor who
\* is not signed in), whether the body is JSON, and the body's type and content
AnRequests ==
    {[client |-> c, json |-> FALSE, type |-> JSUndefined, content |-> JSUndefined] :
        c \in {"anonymous", "throws"}}
    \cup {[client |-> "anonymous", json |-> TRUE, type |-> JSString(<<t>>), content |-> JSString(c)] :
            t \in {"email", "message", "url"}, c \in AnContents}
    \cup {[client |-> "anonymous", json |-> TRUE, type |-> t, content |-> c] :
            t \in {JSUndefined, JSString(<<"sms">>)}, c \in {JSString(<<"h","e","l","l","o">>)}}
    \cup {[client |-> "anonymous", json |-> TRUE, type |-> JSString(<<"email">>), content |-> c] :
            c \in {JSUndefined, JSString(<<>>), JSNumber(5000)}}

\* a well-formed analysis, and the same with one property changed
GeminiAnalysis ==
    [threatType |-> JSString(<<"phishing">>), severity |-> JSString(<<"high">>),
     riskScore |-> JSNumber(85000), confidence |-> JSNumber(950),
     summary |-> JSString(<<"Credential phishing">>),
     explanation |-> JSArray(<<"ai explanation">>), indicators |-> JSArray(<<"ai indicator">>),
     recommendations |-> JSArray(<<"ai recommendation">>),
     riskContributions |-> JSArray(<<"ai contribution">>)]

GeminiPayloads ==
    {GeminiObject(GeminiAnalysis), GeminiObject(<<>>),
     JSNull, JSNumber(5000), JSString(<<"safe">>), JSArray(<<>>)}
    \cup {GeminiObject([GeminiAnalysis EXCEPT !.riskScore = v]) :
            v \in {JSUndefined, JSNull, JSNumber(0), JSNumber(55500), JSNumber(100000),
                   JSNumber(150000), JSNumber(0 - 5000), JSString(<<"8","5">>),
                   JSString(<<"h","i","g","h">>), JSBoolean(TRUE), JSArray(<<>>)}}
    \cup {GeminiObject([GeminiAnalysis EXCEPT !.confidence = v]) :
            v \in {JSUndefined, JSNumber(0), JSNumber(1000), JSNumber(1500), JSNumber(854),
                   JSNumber(85000), JSNumber(150000), JSNumber(0 - 3000),
                   JSString(<<"a","b","c">>), JSString(<<"9","0">>)}}
    \cup {GeminiObject([GeminiAnalysis EXCEPT !.threatType = v]) :
            v \in {JSUndefined, JSString(<<"safe">>), JSString(<<"bogus">>), JSNumber(1000)}}
    \cup {GeminiObject([GeminiAnalysis EXCEPT !.severity = v]) :
            v \in {JSUndefined, JSString(<<"critical">>), JSString(<<"safe">>),
                   JSString(<<"bogus">>), JSArray(<<"high">>)}}
    \cup {GeminiObject([GeminiAnalysis EXCEPT !.summary = v]) :
            v \in {JSUndefined, JSString(<<>>), JSNumber(5000)}}
    \cup {GeminiObject([GeminiAnalysis EXCEPT !.indicators = v]) :
            v \in {JSUndefined, JSNull, JSString(<<"a","b">>), JSNumber(1000)}}
    \cup {GeminiObject([GeminiAnalysis EXCEPT !.recommendations = v]) :
            v \in {JSUndefined, JSString(<<"a","b">>)}}

\* what the endpoint does for one call; body "error": a body with an error
\* property, whatever else it carries
GeminiOutcomes ==
    {AIReject, AIStatus(FALSE), AIStatus(TRUE), AIBody("invalid"), AIBody("null"),
     [AIText(<<TokPayload(GeminiObject(GeminiAnalysis))>>) EXCEPT !.body = "error"],
     AIText(<<>>), AIText(<<Tok("garbage")>>),
     AIText(<<TokPayload(GeminiObject(GeminiAnalysis)), Tok("garbage")>>),
     AIText(<<Tok("fence"), Tok("json"), Tok("space"), TokPayload(GeminiObject(GeminiAnalysis)),
              Tok("space"), Tok("fence")>>)}
    \cup {AIText(<<TokPayload(val)>>) : val \in GeminiPayloads}

\* the body of an error response
AnError(code, message) == [error |-> [code |-> code, message |-> message]]
AnResponse(status, body, headers) == [status |-> status, body |-> body, headers |-> headers]
NoHeaders == [h \in {"X-RateLimit-Remaining", "X-RateLimit-Reset", "Retry-After"} |-> <<>>]

\* analyzeRequestSchema.safeParse(body).success
analyzeRequestValid(req) ==
    /\ req.type.t = "string"
    /\ req.type.items \in {<<"email">>, <<"message">>, <<"url">>}
    /\ req.content.t = "string"
    /\ Len(req.content.items) >= 1
    /\ Len(req.content.items) <= 50000

\* lines 32-103: the handler up to the call of analyzeWithGemini
AnPost ==
    /\ anPc = "idle"
    /\ \E req \in AnRequests :
        /\ anReq' = req
        /\ anAI' = None
        /\ anResult' = None
        /\ IF req.client = "throws"
           THEN /\ anResp' = AnResponse(500, AnError("INTERNAL_ERROR",
                                 "An unexpected error occurred during analysis"), NoHeaders)
                /\ anLimit' = None
                /\ anPc' = "done"
                /\ UNCHANGED <<rlStore, rlLastCleanup>>
           ELSE \E limited \in {checkRateLimit(<<"anon", "10.0.0.1">>, rateLimitConfigs_analysis,
                                               rlStore, rlLastCleanup, rlNow)} :
                /\ rlStore' = limited.store
                /\ rlLastCleanup' = limited.lastCleanup
                /\ anLimit' = limited.result
                /\ IF ~limited.result.success
                   THEN /\ anResp' = AnResponse(429, AnError("RATE_LIMITED",
                                         "Too many requests. Please try again later."),
                                         createRateLimitHeaders(limited.result))
                        /\ anPc' = "done"
                   ELSE IF ~req.json
                   THEN /\ anResp' = AnResponse(400, AnError("INVALID_JSON", "Invalid JSON body"),
                                                NoHeaders)
                        /\ anPc' = "done"
                   ELSE IF ~analyzeRequestValid(req)
                   THEN /\ anResp' = AnResponse(400, AnError("VALIDATION_ERROR", "first issue"),
                                                NoHeaders)
                        /\ anPc' = "done"
                   ELSE IF ~env_GEMINI_API_KEY
                   THEN /\ anResp' = AnResponse(503, AnError("CONFIG_ERROR",
                                         "AI service not configured"), NoHeaders)
                        /\ anPc' = "done"
                   ELSE /\ anResp' = None
                        /\ anPc' = "ai"
    /\ UNCHANGED <<env_GEMINI_API_KEY, urlVars, smsVars, pwdVars, mwVars, probe,
                   rlNow, rlConfig, rlTicks, rlWindow, rlLast>>

\* lines 103-159: analyzeWithGemini settles, the row is inserted (or the
\* insert reports an error, which is tolerated) and the handler answers
AnAIReturn ==
    /\ anPc = "ai"
    /\ \E outcome \in GeminiOutcomes, saved \in BOOLEAN :
        \E settled \in {analyzeWithGemini(anReq.content.items, outcome)} :
          LET analysisResult == settled.value IN
            /\ anAI' = outcome
            /\ anResult' = analysisResult
            /\ anResp' = IF settled.rejected
                         THEN AnResponse(500, AnError("INTERNAL_ERROR",
                                  "An unexpected error occurred during analysis"), NoHeaders)
                         ELSE
                          AnResponse(200,
                            [success |-> TRUE,
                             data |-> [id |-> IF saved THEN "savedAnalysis.id" ELSE "inputHash",
                                       inputType |-> anReq.type.items[1],
                                       threatType |-> analysisResult.threatType.items[1],
                                       severity |-> analysisResult.severity.items[1],
                                       riskScore |-> analysisResult.riskScore,
                                       confidence |-> analysisResult.confidence,
                                       summary |-> analysisResult.summary.items,
                                       explanation |-> analysisResult.explanation,
                                       indicators |-> analysisResult.indicators,
                                       recommendations |-> analysisResult.recommendations,
                                       riskContributions |-> analysisResult.riskContributions,
                                       modelVersion |-> "gemini-2.5-flash"]],
                            createRateLimitHeaders(anLimit))
            /\ anPc' = "done"
    /\ UNCHANGED <<env_GEMINI_API_KEY, urlVars, smsVars, pwdVars, rlVars, mwVars, probe, anReq, anLimit>>

\* the next request arrives
AnNext ==
    /\ anPc = "done"
    /\ anPc' = "idle"
    /\ anReq' = None
    /\ anLimit' = None
    /\ anAI' = None
    /\ anResult' = None
    /\ anResp' = None
    /\ UNCHANGED <<env_GEMINI_API_KEY, urlVars, smsVars, pwdVars, rlVars, mwVars, probe>>

NextAn == AnPost \/ AnAIReturn \/ AnNext

SpecAn == Init /\ [][NextAn]_vars


\* the AI call of the analysis in progress has failed: network error, status
\* outside 2xx, unreadable or null body, error property, no text, or a text
\* that is not the JSON of a value with properties
GeminiFailed(outcome) ==
    \/ outcome.fetch = "reject"
    \/ ~outcome.ok
    \/ outcome.body \in {"invalid", "null", "error"}
    \/ ~outcome.hasText
    \/ outcome.text = <<>>
    \/ ~JSONParses(CleanText(outcome.text))
    \/ JSONParse(CleanText(outcome.text)).t = "null"

\* C25: analyzeWithGemini never rejects (the handler answers 200 whenever the
\* call was made), and after a failed AI call the analysis is the fallback:
\* confidence 60, riskScore within 10..100, severity the step function of
\* riskScore (>= 70 high, >= 40 medium, >= 20 low, otherwise safe).
Thm_C25_FallbackOnFailure ==
    (anPc = "done" /\ anAI # None) =>
        /\ anResult # None
        /\ anResp.status = 200
        /\ GeminiFailed(anAI) =>
            /\ anResp.body.data.confidence = 60000
            /\ anResp.body.data.riskScore >= 10000
            /\ anResp.body.data.riskScore <= 100000
            /\ anResp.body.data.severity =
                 (IF anResp.body.data.riskScore >= 70000 THEN "high"
                  ELSE IF anResp.body.data.riskScore >= 40000 THEN "medium"
                  ELSE IF anResp.body.data.riskScore >= 20000 THEN "low"
                  ELSE "safe")
            /\ anResp.body.data.summary =
                 <<"Fallback analysis - AI service temporarily unavailable">>
        /\ ~GeminiFailed(anAI) => anResp.body.data.summary #
                 <<"Fallback analysis - AI service temporarily unavailable">>

Wit_C25_UnparsableTextClamped ==
    /\ anPc = "done"
    /\ anAI = AIText(<<Tok("garbage")>>)
    /\ anResp.status = 200
    /\ anResp.body.data.riskScore = 100000
    /\ anResp.body.data.severity = "high"
    /\ anResp.body.data.confidence = 60000


\* C23 (as the specification states it): without GEMINI_API_KEY a valid
\* content-analysis request that is within the rate limit is answered with a
\* heuristic assessment (status 200, confidence 60), not with an error.
Cex_C23_NoKeyStillAssessed ==
    ( /\ anPc = "done"
      /\ ~env_GEMINI_API_KEY
      /\ anReq.client = "anonymous"
      /\ anReq.json
      /\ analyzeRequestValid(anReq)
      /\ anLimit.success )
    => /\ anResp.status = 200
       /\ anResp.body.data.confidence = 60000


\* C26 (as the specification states it): the list fields of an AI response
\* are used only if they are arrays; whatever the URL check appends to the
\* heuristic threats and recommendations is an element of an array of the
\* payload.
Cex_C26_ListsOnlyFromArrays ==
    (urlPc = "done" /\ urlAnalysis # None /\ urlResp.status = 200)
    => LET appended(all, own) == {all[i] : i \in (Len(own) + 1)..Len(all)}
       IN  /\ appended(urlResp.body.threats, urlAnalysis.threats) \subseteq {"ai finding"}
           /\ appended(urlResp.body.recommendations, urlAnalysis.recommendations)
                \subseteq {"ai finding"}


----------------------------------------------------------------------------
(* Termination of the password check.  The handler runs whenever a request  *)
(* is waiting and answers whenever the lookup has settled, hence the weak  *)
(* fairness of PwdPost and PwdNext.  The settling of the fetch of          *)
(* checkBreaches (lines 191-195) is the breach service's step: the call    *)
(* passes no signal and no timeout, so nothing in the handler makes        *)
(* PwdBreachReturn happen, and it gets no fairness.                        *)

SpecPwdLive == Init /\ [][NextPwd]_vars /\ WF_vars(PwdPost) /\ WF_vars(PwdNext)

\* C22 (as the specification states it): a password check that has started
\* its breach lookup eventually completes with a response, even if the
\* breach service never responds.
Cex_C22_LookupEventuallyAnswered == (pwdPc = "breach") ~> (pwdPc = "done")


----------------------------------------------------------------------------
(* Repeated evaluations on the heuristic paths.  GEMINI_API_KEY is not set, *)
(* so that no evaluation calls the AI.  The synchronous part of a handler   *)
(* runs to completion; the evaluations follow one another in any order.    *)
(* probe keeps the request and the response of one earlier evaluation (for *)
(* the password check also what the breach service answered), against      *)
(* which later evaluations of the same request are compared.  The time     *)
(* stamps of a response (analyzedAt, timestamp) are left out of the        *)
(* responses.                                                              *)

\* the requests whose first evaluation is kept
ProbeUrl == [json |-> TRUE, url |-> JSString(<<"h","t","t","p","s",":","/","/","p","a","y","p","a","l",".","x","y","z","/","P","a","y","P","a","l","/","l","o","g","i","n">>)]
ProbeMessage == [json |-> TRUE, message |-> JSString(<<"v","i","s","i","t"," ","h","t","t","p",":","/","/","1","9","2",".","1","6","8",".","1",".","1","/","l","o","g","i","n"," ","o","r"," ","w","w","w",".","P","a","y","P","a","1",".","c","o","m"," ","n","o","w">>)]
ProbePassword == [json |-> TRUE, password |-> JSString(<<"p","a","s","s","w","o","r","d">>)]

\* the URL and password requests evaluated here, and what the breach service
\* answers: no response, a failure status, an unreadable body, an empty
\* body, or one line with or without the suffix
TwiceUrlRequests ==
    {ProbeUrl, [json |-> FALSE, url |-> JSUndefined], [json |-> TRUE, url |-> JSNumber(7)]}
    \cup {[json |-> TRUE, url |-> JSString(u)] :
            u \in {<<"h","t","t","p","s",":","/","/","w","w","w",".","e","x","a","m","p","l","e",".","c","o","m">>,
                   <<"h","t","t","p",":","/","/","1","9","2",".","1","6","8",".","1",".","1">>,
                   <<"b","i","t",".","l","y">>,
                   <<"j","a","v","a","s","c","r","i","p","t",":","p","a","y","p","a","l">>,
                   <<"f","t","p",":","/","/","s","e","c","u","r","e","-","l","o","g","i","n",".","x","y","z","/","P","a","y","P","a","l","/","l","o","g","i","n">>}}
TwicePwdRequests ==
    {ProbePassword, [json |-> FALSE, password |-> JSUndefined],
     [json |-> TRUE, password |-> JSNumber(12345678)]}
    \cup {[json |-> TRUE, password |-> JSString(w)] :
            w \in {<<"a","d","m","i","n">>, <<"T","r","0","u","b","4","d","o","r","&","3","x","y","z","!","9","Q","p">>, <<"1","2","3","4","5","6">>}}
TwiceBreachOutcomes(suffix) ==
    {BreachReject, BreachStatus, BreachBody, BreachText(<<>>),
     BreachText(suffix \o <<":", "3">>), BreachText(suffix \o <<":", "1", "2", "\r">>),
     BreachText(ToLowerCase(suffix) \o <<":", "5">>), BreachText(suffix)}

TwiceUrl ==
    /\ ~env_GEMINI_API_KEY
    /\ smsPc = "idle"
    /\ pwdPc = "idle"
    /\ \/ urlReq' \in TwiceUrlRequests /\ UrlPost
       \/ UrlNext

TwiceSms ==
    /\ ~env_GEMINI_API_KEY
    /\ urlPc = "idle"
    /\ pwdPc = "idle"
    /\ (SmsPost \/ SmsNext)

TwicePwd ==
    /\ ~env_GEMINI_API_KEY
    /\ urlPc = "idle"
    /\ smsPc = "idle"
    /\ \/ pwdReq' \in TwicePwdRequests /\ PwdPost
       \/ /\ PwdBreachReturn
          /\ pwdBreach'.outcome \in TwiceBreachOutcomes(pwdBreach.suffix)
       \/ PwdNext

\* the response of a completed evaluation is sent and kept, and the route
\* handles the next request
ProbeRecord ==
    /\ probe = None
    /\ ~env_GEMINI_API_KEY
    /\ \/ /\ urlPc = "done"
          /\ urlReq = ProbeUrl
          /\ probe' = [kind |-> "url", req |-> urlReq, outcome |-> None, resp |-> urlResp]
          /\ urlPc' = "idle"
          /\ urlReq' = None
          /\ urlAnalysis' = None
          /\ urlResp' = None
          /\ UNCHANGED <<smsVars, pwdVars>>
       \/ /\ smsPc = "done"
          /\ smsReq = ProbeMessage
          /\ probe' = [kind |-> "sms", req |-> smsReq, outcome |-> None, resp |-> smsResp]
          /\ smsPc' = "idle"
          /\ smsReq' = None
          /\ smsLocal' = None
          /\ smsAiResult' = None
          /\ smsResp' = None
          /\ UNCHANGED <<lastIndex, urlVars, pwdVars>>
       \/ /\ pwdPc = "done"
          /\ pwdReq = ProbePassword
          /\ pwdBreach.outcome \in {BreachReject, BreachText(pwdBreach.suffix \o <<":", "3">>)}
          /\ probe' = [kind |-> "password", req |-> pwdReq, outcome |-> pwdBreach.outcome,
                       resp |-> pwdResp]
          /\ pwdPc' = "idle"
          /\ pwdReq' = None
          /\ pwdAnalysis' = None
          /\ pwdBreach' = None
          /\ pwdResp' = None
          /\ UNCHANGED <<urlVars, smsVars>>
    /\ UNCHANGED <<env_GEMINI_API_KEY, rlVars, mwVars, anVars>>

NextTwice == TwiceUrl \/ TwiceSms \/ TwicePwd \/ ProbeRecord

SpecTwice == Init /\ [][NextTwice]_vars

\* the request now answered is the one whose earlier evaluation is kept
SameAsProbe ==
    /\ probe # None
    /\ \/ probe.kind = "url" /\ urlPc = "done" /\ urlReq = probe.req
       \/ probe.kind = "sms" /\ smsPc = "done" /\ smsReq = probe.req
       \/ /\ probe.kind = "password"
          /\ pwdPc = "done"
          /\ pwdReq = probe.req
          /\ pwdBreach.outcome = probe.outcome

====
